---------------------------- MODULE Spec2Model ----------------------------
(***************************************************************************)
(* Model of the multi-tab synchronization engine of the album catalog:     *)
(* the trigger / stop views (catalog/views.py), the background worker      *)
(* SyncManager.run_sync and the error classifier                           *)
(* (catalog/services/sync_manager.py).                                     *)
(*                                                                         *)
(* The database is modelled as PostgreSQL under READ COMMITTED, the        *)
(* production backend: SELECT ... FOR UPDATE NOWAIT locks the rows it      *)
(* returns until the transaction ends and raises when a row is locked by   *)
(* another transaction; it locks nothing when no row matches.              *)
(***************************************************************************)
EXTENDS Integers, Sequences, FiniteSets, TLC

(***************************************************************************)
(* Bounds                                                                  *)
(***************************************************************************)
\* number of base classes a raised exception type may combine
MaxBases == 2
\* trigger requests in flight at the same time, stop requests in flight at
\* the same time
NumTriggers == 2
NumStops == 1
\* number of SyncOperation rows created in a behaviour
MaxOps == 2
\* tabs per workbook and rows per tab in the single-run specification
MaxTabs == 3
MaxRows == 1
\* distinct Spotify album ids appearing in the sheets
MaxAlbumId == 2
\* album_cover_art requests for the same album in flight at the same time
NumViewers == 3
MaxYear == 2
MaxLabelLen == 5
MaxWords == 3
MaxGenres == 2
MaxCalls == 2
MaxSheetRows == 21
MaxDataRows == 3
MaxStyles == 2
\* distinct cover art URLs, and metadata documents, Spotify may answer with
NumCacheValues == 2

(***************************************************************************)
(* Exception classes and the error classifier                              *)
(***************************************************************************)
NoFault == {}

\* direct base classes, as declared by Python, requests.exceptions and
\* catalog.services.google_sheets
Bases(c) ==
    CASE c = "Exception"          -> {}
      [] c = "CriticalSyncError"  -> {"Exception"}
      [] c = "TabProcessingError" -> {"Exception"}
      [] c = "OSError"            -> {"Exception"}
      [] c = "MemoryError"        -> {"Exception"}
      [] c = "ValueError"         -> {"Exception"}
      [] c = "KeyError"           -> {"Exception"}
      [] c = "IndexError"         -> {"Exception"}
      [] c = "RuntimeError"       -> {"Exception"}
      [] c = "RequestException"   -> {"OSError"}
      [] c = "ConnectionError"    -> {"RequestException"}
      [] c = "Timeout"            -> {"RequestException"}
      [] c = "HTTPError"          -> {"RequestException"}
      [] c = "ConnectTimeout"     -> {"ConnectionError", "Timeout"}
      [] c = "ReadTimeout"        -> {"Timeout"}

Classes ==
    {"Exception", "CriticalSyncError", "TabProcessingError", "OSError",
     "MemoryError", "ValueError", "KeyError", "IndexError", "RuntimeError",
     "RequestException", "ConnectionError", "Timeout", "HTTPError",
     "ConnectTimeout", "ReadTimeout"}

\* the classes an instance of c is an instance of (c and all its ancestors)
RECURSIVE Mro(_)
Mro(c) == {c} \cup UNION {Mro(b) : b \in Bases(c)}

\* isinstance(error, cls); a fault is the set of classes it is an instance of
IsInstance(error, cls) == cls \in error

\* the fault raised by an exception type deriving from the classes in bs
FaultOf(bs) == UNION {Mro(b) : b \in bs}

\* a classifier testing the continuable classes TabProcessingError and
\* ValueError / KeyError / IndexError before the not continuable ones
classify_continuable_first(error) ==
    IF IsInstance(error, "TabProcessingError")
      THEN <<TRUE, "Tab processing error">>
    ELSE IF \E c \in {"ValueError", "KeyError", "IndexError"} :
              IsInstance(error, c)
      THEN <<TRUE, "Data format error in tab">>
    ELSE IF IsInstance(error, "CriticalSyncError")
      THEN <<FALSE, "Critical sync error">>
    ELSE IF IsInstance(error, "ConnectionError")
      THEN <<FALSE, "Connection error">>
    ELSE IF IsInstance(error, "OSError")
      THEN <<FALSE, "File I/O error">>
    ELSE IF IsInstance(error, "MemoryError")
      THEN <<FALSE, "Memory error">>
    ELSE IF IsInstance(error, "Timeout")
      THEN <<TRUE, "Request timeout for tab">>
    ELSE <<TRUE, "Unexpected error in tab">>

\* classify_and_handle_error: <<should_continue, message prefix>>, the
\* isinstance tests in the order of the code
classify_and_handle_error(error) ==
    IF IsInstance(error, "CriticalSyncError")
      THEN <<FALSE, "Critical sync error">>
    ELSE IF IsInstance(error, "ConnectionError")
      THEN <<FALSE, "Connection error">>
    ELSE IF IsInstance(error, "OSError")
      THEN <<FALSE, "File I/O error">>
    ELSE IF IsInstance(error, "MemoryError")
      THEN <<FALSE, "Memory error">>
    ELSE IF IsInstance(error, "TabProcessingError")
      THEN <<TRUE, "Tab processing error">>
    ELSE IF \E c \in {"ValueError", "KeyError", "IndexError"} :
              IsInstance(error, c)
      THEN <<TRUE, "Data format error in tab">>
    ELSE IF IsInstance(error, "Timeout")
      THEN <<TRUE, "Request timeout for tab">>
    ELSE <<TRUE, "Unexpected error in tab">>

(***************************************************************************)
(* State                                                                   *)
(***************************************************************************)
VARIABLES
    ops,        \* SyncOperation table: sequence indexed by primary key
    albums,     \* Album table: the set of stored spotify_album_id values
    records,    \* SyncRecord table, in insertion order
    locked,     \* ids of the SyncOperation rows locked FOR UPDATE, each by a
                \* sync_trigger call that found the row active
    creating,   \* number of sync_trigger calls between their check (nothing
                \* active) and their create
    stopping,   \* per SyncOperation id, the number of sync_stop calls that
                \* loaded it as active_sync and have not saved yet
    resp,       \* status code of the last response of each view
    workbook,   \* the spreadsheet served by the export URL: its sorted tabs
    worker,     \* run_sync thread of each SyncOperation: locals and position
    hist,       \* per SyncOperation, what has happened to it
    cl_error,   \* classifier under test: the error passed in
    cl_result,  \* classifier under test: the tuple returned
    cover,      \* cover art of one album: the cached URL, the row lock and
                \* the album_cover_art requests in progress
    call        \* one call of a function of the import pipeline: its name,
                \* its arguments, the tables it reads and its return value

vars == <<ops, albums, records, locked, creating, stopping, resp, workbook,
          worker, hist, cl_error, cl_result, cover, call>>

OpIds == DOMAIN ops

Terminal == {"completed", "failed", "cancelled"}
NoMessage == [kind |-> "none"]

\* SyncOperation.objects.create(status="pending", ...): field defaults
NewSyncOperation ==
    [status |-> "pending", stage |-> "", albums_processed |-> 0,
     total_albums |-> -1, current_tab |-> 0, completed_at |-> FALSE,
     error_message |-> NoMessage]

\* locals of run_sync before its first statement; stage is the attribute
\* sync_op.stage of the worker's own copy of the row, which reaches the
\* table only through a save that names "stage" in update_fields
NewWorker ==
    [pc |-> "start", stage |-> "", tab_index |-> 1, album_idx |-> 1,
     created_count |-> 0, updated_count |-> 0, skipped_count |-> 0,
     failed_count |-> 0, total_albums_processed |-> 0,
     tab_created |-> 0, tab_skipped |-> 0, tab_results |-> <<>>,
     sheet_data |-> <<>>, sheets_data |-> [id |-> 0, fault |-> FALSE],
     exc |-> NoFault, exc_text |-> "other"]

\* overlap: created while another SyncOperation was pending or running;
\* stop_written: a sync_stop call has saved "cancelled" on it;
\* stop_tab: the tab whose album loop was running when that happened;
\* max_tab: the last tab extracted; attempted: rows of it attempted so far;
\* aborted: the tab loop was left by the break of the tab except branch
NewHist ==
    [overlap |-> FALSE, stop_written |-> FALSE, stop_tab |-> 0,
     max_tab |-> 0, attempted |-> {}, aborted |-> FALSE]

\* a filter that also matches cancelled rows
ActiveIdsWithCancelled(table) ==
    {o \in DOMAIN table : table[o].status \in {"pending", "running", "cancelled"}}

\* filter(Q(status="pending") | Q(status="running"))
ActiveIds(table) ==
    {o \in DOMAIN table : table[o].status \in {"pending", "running"}}

\* .first() over the active rows in Meta.ordering ("-started_at");
\* started_at is auto_now_add, so the latest row has the largest id
FirstActive(table) ==
    IF ActiveIds(table) = {} THEN 0
    ELSE CHOOSE o \in ActiveIds(table) : \A p \in ActiveIds(table) : p <= o

IsLocked(o) == o \in locked

TriggersInFlight == creating + Cardinality(locked)

RECURSIVE SumOver(_, _)
SumOver(f, S) ==
    IF S = {} THEN 0
    ELSE LET x == CHOOSE y \in S : TRUE IN f[x] + SumOver(f, S \ {x})

StopsInFlight == SumOver(stopping, DOMAIN stopping)

(***************************************************************************)
(* sync_trigger                                                            *)
(***************************************************************************)
\* the SELECT ... FOR UPDATE NOWAIT finds no pending/running row: nothing is
\* locked and the view goes on to create a row
TriggerSelectNone ==
    /\ TriggersInFlight < NumTriggers
    /\ FirstActive(ops) = 0
    /\ creating' = creating + 1
    /\ UNCHANGED <<ops, albums, records, locked, stopping, resp, workbook,
                   worker, hist, cl_error, cl_result, cover, call>>

\* the SELECT finds an active row and locks it until the atomic block exits
TriggerSelectActive ==
    /\ TriggersInFlight < NumTriggers
    /\ FirstActive(ops) # 0
    /\ ~IsLocked(FirstActive(ops))
    /\ locked' = locked \cup {FirstActive(ops)}
    /\ UNCHANGED <<ops, albums, records, creating, stopping, resp, workbook,
                   worker, hist, cl_error, cl_result, cover, call>>

\* the active row is locked by another transaction: NOWAIT raises, the
\* except branch answers 500
TriggerSelectLocked ==
    /\ TriggersInFlight < NumTriggers
    /\ FirstActive(ops) # 0
    /\ IsLocked(FirstActive(ops))
    /\ resp' = [resp EXCEPT !.trigger = 500]
    /\ UNCHANGED <<ops, albums, records, locked, creating, stopping, workbook,
                   worker, hist, cl_error, cl_result, cover, call>>

\* return 409 from inside the atomic block: the transaction ends, the lock
\* on row a is released
TriggerConflict(a) ==
    /\ IsLocked(a)
    /\ locked' = locked \ {a}
    /\ resp' = [resp EXCEPT !.trigger = 409]
    /\ UNCHANGED <<ops, albums, records, creating, stopping, workbook,
                   worker, hist, cl_error, cl_result, cover, call>>

\* SyncOperation.objects.create(status="pending"), commit, then
\* SyncManager.start_sync(sync_op_id) and the 202 response
TriggerCreate ==
    /\ creating > 0
    /\ Len(ops) < MaxOps
    /\ creating' = creating - 1
    /\ ops' = Append(ops, NewSyncOperation)
    /\ worker' = Append(worker, NewWorker)
    /\ hist' = Append(hist, [NewHist EXCEPT !.overlap = ActiveIds(ops) # {}])
    /\ resp' = [resp EXCEPT !.trigger = 202]
    /\ UNCHANGED <<albums, records, locked, stopping, workbook,
                   cl_error, cl_result, cover, call>>

(***************************************************************************)
(* sync_stop                                                               *)
(***************************************************************************)
\* no pending/running row: 404, nothing written
StopSelectNone ==
    /\ StopsInFlight < NumStops
    /\ FirstActive(ops) = 0
    /\ resp' = [resp EXCEPT !.stop = 404]
    /\ UNCHANGED <<ops, albums, records, locked, creating, stopping, workbook,
                   worker, hist, cl_error, cl_result, cover, call>>

\* the latest pending/running row is loaded into active_sync
StopSelectActive ==
    /\ StopsInFlight < NumStops
    /\ FirstActive(ops) # 0
    /\ stopping' = [stopping EXCEPT ![FirstActive(ops)] = @ + 1]
    /\ UNCHANGED <<ops, albums, records, locked, creating, resp, workbook,
                   worker, hist, cl_error, cl_result, cover, call>>

\* active_sync.status = "cancelled"; save(update_fields=["status", ...]); 200
StopWrite(o) ==
    /\ stopping[o] > 0
    /\ ~IsLocked(o)
    /\ stopping' = [stopping EXCEPT ![o] = @ - 1]
    /\ ops' = [ops EXCEPT ![o].status = "cancelled"]
    /\ hist' = [hist EXCEPT
          ![o].stop_written = TRUE,
          ![o].stop_tab = IF worker[o].pc \in {"rows", "import"} /\ @ = 0
                            THEN worker[o].tab_index ELSE @]
    /\ resp' = [resp EXCEPT !.stop = 200]
    /\ UNCHANGED <<albums, records, locked, creating, workbook, worker,
                   cl_error, cl_result, cover, call>>

(***************************************************************************)
(* SyncManager.run_sync                                                    *)
(***************************************************************************)
\* failed_tabs[:3]
ShowFailedTabs == 3
\* "Update progress every 5 albums within a tab"
ProgressEvery == 5

Min(a, b) == IF a < b THEN a ELSE b

successful_tabs(tab_results) == SelectSeq(tab_results, LAMBDA t : t.success)
failed_tabs(tab_results) == SelectSeq(tab_results, LAMBDA t : ~t.success)

\* the part of tab_error_summary that names tabs: <<name, error>> of the
\* first three failed tabs, and how many more there are
tab_error_summary(tab_results) ==
    LET ft == failed_tabs(tab_results)
        shown == SubSeq(ft, 1, Min(ShowFailedTabs, Len(ft)))
    IN [names |-> [i \in DOMAIN shown |-> <<shown[i].name, shown[i].error>>],
        more |-> Len(ft) - Len(shown)]

is_partial_failure(w) ==
    \/ (w.failed_count > 0 /\ w.created_count + w.updated_count > 0)
    \/ Len(failed_tabs(w.tab_results)) > 0

\* one message for every category
user_message_generic(e, text) == "Synchronization failed"

\* user_message of the outer except branch, by exception category
user_message(e, text) ==
    IF IsInstance(e, "ConnectionError") THEN "Unable to reach external services"
    ELSE IF IsInstance(e, "Timeout") THEN "Request timed out"
    ELSE IF IsInstance(e, "HTTPError") THEN "HTTP error occurred"
    ELSE IF IsInstance(e, "ValueError") /\ text = "header row"
      THEN "Unable to find the expected data structure"
    ELSE IF IsInstance(e, "ValueError") /\ text = "column"
      THEN "Missing expected columns"
    ELSE "Synchronization failed"

\* what requests.get / raise_for_status / load_workbook can raise before the
\* tab loop, with the text of the exception
FetchFaults ==
    {<<FaultOf({"ConnectionError"}), "other">>,
     <<FaultOf({"ReadTimeout"}), "other">>,
     <<FaultOf({"HTTPError"}), "other">>,
     <<FaultOf({"ValueError"}), "header row">>,
     <<FaultOf({"OSError"}), "other">>}

\* sync_op = get(id); status = "running"; stage = "fetching"; save(...); then
\* the workbook is fetched, loaded and its tabs enumerated, filtered and
\* sorted (no database access): either that succeeds or it raises into the
\* outer except branch
RunStart(o) ==
    /\ worker[o].pc = "start"
    /\ ~IsLocked(o)
    /\ ops' = [ops EXCEPT ![o].status = "running", ![o].stage = "fetching"]
    /\ \/ worker' = [worker EXCEPT ![o].pc = "loop", ![o].tab_index = 1,
                                      ![o].stage = "fetching"]
       \/ \E f \in FetchFaults :
             worker' = [worker EXCEPT ![o].pc = "except", ![o].exc = f[1],
                                      ![o].exc_text = f[2],
                                      ![o].stage = "fetching"]
    /\ UNCHANGED <<albums, records, locked, creating, stopping, resp,
                   workbook, hist, cl_error, cl_result, cover, call>>

\* tab_results.append({... 'success': True ...}) and the next loop iteration;
\* the per-tab locals are dead until the next tab assigns them again
TabSucceeded(w, name) ==
    [w EXCEPT !.tab_results = Append(@, [name |-> name, success |-> TRUE,
                                         created |-> w.tab_created,
                                         skipped |-> w.tab_skipped,
                                         error |-> "None"]),
              !.tab_index = @ + 1, !.album_idx = 1, !.pc = "loop",
              !.tab_created = 0, !.tab_skipped = 0,
              !.sheets_data = NewWorker.sheets_data]

\* a tab except branch that never breaks
TabFailedAlwaysContinue(w, name, tab_error) ==
    [w EXCEPT !.tab_results = Append(@, [name |-> name, success |-> FALSE,
                                         created |-> 0, skipped |-> 0,
                                         error |-> "Unexpected error in tab"]),
              !.tab_index = @ + 1, !.pc = "loop"]

\* except Exception as tab_error: classify, record the failure, then break
\* (to the code after the loop) or continue
TabFailed(w, name, tab_error) ==
    LET c == classify_and_handle_error(tab_error) IN
    [w EXCEPT !.tab_results = Append(@, [name |-> name, success |-> FALSE,
                                         created |-> 0, skipped |-> 0,
                                         error |-> c[2]]),
              !.tab_index = IF c[1] THEN @ + 1 ELSE @,
              !.pc = IF c[1] THEN "loop" ELSE "final"]

\* saves after the loop that leave current_tab as it is
FinalizingKeepsTab(row) == [row EXCEPT !.stage = "finalizing"]

\* the saves after the loop: current_tab = "", stage = "finalizing"
Finalizing(row) == [row EXCEPT !.current_tab = 0, !.stage = "finalizing"]

\* sync_op.refresh_from_db(): the worker's copy takes the stored values
Refreshed(w, row) == [w EXCEPT !.stage = row.stage]

\* a loop that ends only when sorted_tabs is exhausted
LoopEndsIgnoringCancel(w, row) == w.tab_index > Len(workbook)

\* the tab loop ends: sorted_tabs is exhausted, or refresh_from_db() at the
\* head of an iteration reads "cancelled"
LoopEnds(w, row) ==
    w.tab_index > Len(workbook) \/ row.status = "cancelled"

\* one pass through the loop head.  The loop is exhausted, or
\* refresh_from_db() reads "cancelled" and breaks: the saves after the loop
\* follow.  Otherwise current_tab is saved and fetch_albums_from_tab runs: it
\* raises (classified: continue with the next tab, or break), or it returns
\* the rows of the sheet, total_albums is saved for the first tab,
\* sync_op.stage = "processing" is assigned (no save follows that names
\* "stage") and the album loop starts
TabLoop(o) ==
    LET w == worker[o]
        tab == workbook[w.tab_index]
    IN
    /\ w.pc = "loop"
    /\ ~IsLocked(o)
    /\ IF LoopEnds(w, ops[o])
         THEN /\ ops' = [ops EXCEPT ![o] = Finalizing(@)]
              /\ worker' = [worker EXCEPT ![o].pc = "final",
                                          ![o].stage = "finalizing"]
              /\ hist' = hist
         ELSE \E sheet \in tab.sheets :
                /\ hist' = [hist EXCEPT
                      ![o].max_tab = w.tab_index,
                      ![o].attempted = {},
                      ![o].aborted = sheet.fault # NoFault
                          /\ ~classify_and_handle_error(sheet.fault)[1]]
                /\ IF sheet.fault # NoFault
                     THEN LET v == TabFailed(Refreshed(w, ops[o]), tab.name,
                                             sheet.fault)
                          IN
                          /\ worker' = [worker EXCEPT ![o] =
                                IF v.pc = "final"
                                  THEN [v EXCEPT !.stage = "finalizing"]
                                  ELSE v]
                          /\ ops' = [ops EXCEPT ![o] =
                                IF v.pc = "final" THEN Finalizing(@)
                                ELSE [@ EXCEPT !.current_tab = tab.name]]
                     ELSE /\ ops' = [ops EXCEPT
                                ![o].current_tab = tab.name,
                                ![o].total_albums =
                                    IF w.tab_index = 1 THEN Len(sheet.rows) ELSE @]
                          /\ worker' = [worker EXCEPT ![o] =
                                LET v == [w EXCEPT !.sheet_data = sheet.rows,
                                                   !.stage = "processing",
                                                   !.tab_created = 0,
                                                   !.tab_skipped = 0]
                                IN IF sheet.rows = <<>>
                                     THEN TabSucceeded(v, tab.name)
                                     ELSE [v EXCEPT !.album_idx = 1, !.pc = "rows"]]
    /\ UNCHANGED <<albums, records, locked, creating, stopping, resp,
                   workbook, cl_error, cl_result, cover, call>>

\* end of one iteration of the album loop
NextRow(w, tab) ==
    IF w.album_idx = Len(w.sheet_data)
      THEN TabSucceeded(w, tab.name)
      ELSE [w EXCEPT !.album_idx = @ + 1, !.pc = "rows"]

\* an existence test that never finds the album
album_never_exists(album_id) == FALSE

\* Album.objects.filter(spotify_album_id=album_id).exists()
album_exists(album_id) == album_id \in albums

\* a skip that is not counted
SkippedUncounted(w) == w

\* skipped_count += 1; tab_skipped += 1
Skipped(w) == [w EXCEPT !.skipped_count = @ + 1, !.tab_skipped = @ + 1]

\* the next row of sheet_data is read: extract_spotify_album_id and the
\* Album.objects.filter(...).exists() guard
Row(o) ==
    LET w == worker[o]
        tab == workbook[w.tab_index]
    IN
    /\ w.pc = "rows"
    /\ hist' = [hist EXCEPT ![o].attempted = @ \cup {w.album_idx}]
    /\ \E row \in w.sheet_data[w.album_idx] :
          worker' = [worker EXCEPT ![o] =
              IF row.id = 0 \/ album_exists(row.id)
                THEN NextRow(Skipped(w), tab)
                ELSE [w EXCEPT !.sheets_data = row, !.pc = "import"]]
    /\ UNCHANGED <<ops, albums, records, locked, creating, stopping, resp,
                   workbook, cl_error, cl_result, cover, call>>

\* a per-album except branch that does not count the row as skipped
RowFailedNotSkipped(w) == [w EXCEPT !.failed_count = @ + 1]

\* except Exception as e: failed_count += 1; skipped_count += 1
RowFailed(w) == [w EXCEPT !.failed_count = @ + 1, !.skipped_count = @ + 1]

\* importer._import_single_album (one transaction), the counters and the
\* progress save; a raise is caught by the per-album except branch
Import(o) ==
    LET w == worker[o]
        tab == workbook[w.tab_index]
        row == w.sheets_data
        created == row.id \notin albums
        processed == w.total_albums_processed + 1
        progress == w.album_idx % ProgressEvery = 0 \/ w.album_idx = Len(w.sheet_data)
    IN
    /\ w.pc = "import"
    /\ IF row.fault
         THEN /\ worker' = [worker EXCEPT ![o] =
                    NextRow(RowFailed(w), tab)]
              /\ UNCHANGED <<ops, albums>>
         ELSE /\ progress => ~IsLocked(o)
              /\ albums' = albums \cup {row.id}
              /\ ops' = IF progress
                          THEN [ops EXCEPT ![o].albums_processed = processed]
                          ELSE ops
              /\ worker' = [worker EXCEPT ![o] =
                    NextRow([w EXCEPT
                        !.created_count = IF created THEN @ + 1 ELSE @,
                        !.tab_created = IF created THEN @ + 1 ELSE @,
                        !.updated_count = IF created THEN @ ELSE @ + 1,
                        !.total_albums_processed = processed], tab)]
    /\ UNCHANGED <<records, locked, creating, stopping, resp, workbook, hist,
                   cl_error, cl_result, cover, call>>

\* a cancellation record that drops the counts
CancelledRecordEmpty(o, w) ==
    [op |-> o, albums_created |-> 0, albums_updated |-> 0, albums_skipped |-> 0,
     total_albums_in_catalog |-> Cardinality(albums), success |-> FALSE,
     error_message |-> [kind |-> "cancelled", tabs |-> Len(w.tab_results)]]

\* SyncRecord written when the final check reads "cancelled"
CancelledRecord(o, w) ==
    [op |-> o, albums_created |-> w.created_count,
     albums_updated |-> w.updated_count, albums_skipped |-> w.skipped_count,
     total_albums_in_catalog |-> Cardinality(albums), success |-> FALSE,
     error_message |-> [kind |-> "cancelled", tabs |-> Len(w.tab_results)]]

\* a final check whose cancelled branch does not return
FinalCheckNoReturn(o) ==
    LET w == worker[o] IN
    /\ w.pc = "final"
    /\ IF ops[o].status = "cancelled"
         THEN /\ ~IsLocked(o)
              /\ ops' = [ops EXCEPT ![o].completed_at = TRUE]
              /\ records' = Append(records, CancelledRecord(o, w))
         ELSE UNCHANGED <<ops, records>>
    /\ worker' = [worker EXCEPT ![o].pc = "complete"]
    /\ UNCHANGED <<albums, locked, creating, stopping, resp, workbook, hist,
                   cl_error, cl_result, cover, call>>

\* final refresh_from_db(): on "cancelled" write completed_at and the
\* SyncRecord and return; otherwise go on to the completion code
FinalCheck(o) ==
    LET w == worker[o] IN
    /\ w.pc = "final"
    /\ IF ops[o].status = "cancelled"
         THEN /\ ~IsLocked(o)
              /\ ops' = [ops EXCEPT ![o].completed_at = TRUE]
              /\ records' = Append(records, CancelledRecord(o, w))
              /\ worker' = [worker EXCEPT ![o].pc = "done"]
         ELSE /\ worker' = [worker EXCEPT ![o].pc = "complete"]
              /\ UNCHANGED <<ops, records>>
    /\ UNCHANGED <<albums, locked, creating, stopping, resp, workbook, hist,
                   cl_error, cl_result, cover, call>>

\* SyncRecord of a run that reaches the completion code
CompletedRecord(o, w) ==
    [op |-> o, albums_created |-> w.created_count,
     albums_updated |-> w.updated_count, albums_skipped |-> w.skipped_count,
     total_albums_in_catalog |-> Cardinality(albums),
     success |-> (w.failed_count = 0 /\ Len(failed_tabs(w.tab_results)) = 0),
     error_message |->
        IF is_partial_failure(w)
          THEN [kind |-> "partial",
                summary |-> tab_error_summary(w.tab_results),
                failed |-> w.failed_count,
                ok_tabs |-> Len(successful_tabs(w.tab_results)),
                all_tabs |-> Len(w.tab_results)]
          ELSE NoMessage]

\* a completion that never writes the warning
CompletedMessageKept(prev, w) == prev

\* sync_op.error_message of a completed run: the warning on partial failure
CompletedMessage(prev, w) ==
    IF is_partial_failure(w)
      THEN [kind |-> "warning",
            ok_tabs |-> Len(successful_tabs(w.tab_results)),
            all_tabs |-> Len(w.tab_results),
            summary |-> tab_error_summary(w.tab_results),
            imported |-> w.created_count + w.updated_count,
            failed |-> w.failed_count]
      ELSE prev

\* SyncRecord.objects.create(...); status = "completed"; save(...)
Complete(o) ==
    LET w == worker[o] IN
    /\ w.pc = "complete"
    /\ ~IsLocked(o)
    /\ records' = Append(records, CompletedRecord(o, w))
    /\ ops' = [ops EXCEPT ![o].status = "completed",
                          ![o].completed_at = TRUE,
                          ![o].error_message = CompletedMessage(@, w)]
    /\ worker' = [worker EXCEPT ![o].pc = "done"]
    /\ UNCHANGED <<albums, locked, creating, stopping, resp, workbook, hist,
                   cl_error, cl_result, cover, call>>

\* outer except branch: status = "failed" with the user message, SyncRecord
Except(o) ==
    LET w == worker[o]
        msg == [kind |-> "failed", text |-> user_message(w.exc, w.exc_text)]
    IN
    /\ w.pc = "except"
    /\ ~IsLocked(o)
    /\ ops' = [ops EXCEPT ![o].status = "failed", ![o].completed_at = TRUE,
                          ![o].error_message = msg]
    /\ records' = Append(records,
          [op |-> o, albums_created |-> 0, albums_updated |-> 0,
           albums_skipped |-> 0,
           total_albums_in_catalog |-> Cardinality(albums),
           success |-> FALSE, error_message |-> msg])
    /\ worker' = [worker EXCEPT ![o].pc = "done"]
    /\ UNCHANGED <<albums, locked, creating, stopping, resp, workbook, hist,
                   cl_error, cl_result, cover, call>>

(***************************************************************************)
(* album_cover_art: just-in-time cover art of one album                    *)
(***************************************************************************)
Viewers == 1..NumViewers

\* the values a cache field may be given: cover art URLs, metadata documents
CacheValues == 1..NumCacheValues

\* the Album row (a cache field that is empty, a timestamp that is None: 0),
\* the holder of its row lock, the upstream calls made, the time
\* timezone.now() returns next, and the requests in flight
NewCover ==
    [spotify_cover_url |-> 0, spotify_cover_cached_at |-> 0,
     spotify_metadata_json |-> 0, spotify_metadata_cached_at |-> 0,
     lock |-> 0, fetches |-> 0, now |-> 1,
     viewer |-> [r \in Viewers |->
                    [pc |-> "start", cover_url |-> 0, metadata |-> 0,
                     response |-> "none"]]]

\* spotify_client.fetch_album_cover: the upstream call returns a URL
\* or nothing, or raises SpotifyException with status 429 or another
\* error
fetch_album_cover == {"url", "none", "rate-limit", "error"}

\* cached_url = get_cached_cover_url(album_id): a hit renders the cached
\* art, a miss goes on to the upstream call
CoverCheck(r) ==
    LET v == cover.viewer[r] IN
    /\ v.pc = "start"
    /\ cover' = [cover EXCEPT !.viewer[r] =
          IF cover.spotify_cover_url # 0
            THEN [v EXCEPT !.pc = "done", !.response = "cached"]
            ELSE [v EXCEPT !.pc = "fetch"]]
    /\ UNCHANGED <<ops, albums, records, locked, creating, stopping, resp,
                   workbook, worker, hist, cl_error, cl_result, call>>

\* SpotifyClient(...).fetch_album_cover(...) and the placeholder responses
CoverFetch(r) ==
    LET v == cover.viewer[r] IN
    /\ v.pc = "fetch"
    /\ \E outcome \in fetch_album_cover, url \in CacheValues :
          cover' = [cover EXCEPT
              !.fetches = @ + 1,
              !.viewer[r] =
                  CASE outcome = "url" -> [v EXCEPT !.pc = "cache", !.cover_url = url]
                    [] outcome = "rate-limit"
                          -> [v EXCEPT !.pc = "done", !.response = "skeleton"]
                    [] OTHER -> [v EXCEPT !.pc = "done", !.response = "unavailable"]]
    /\ UNCHANGED <<ops, albums, records, locked, creating, stopping, resp,
                   workbook, worker, hist, cl_error, cl_result, call>>

\* cache_cover_url: Album.objects.select_for_update().get(id=album_id) waits
\* for the row lock
CoverLock(r) ==
    LET v == cover.viewer[r] IN
    /\ v.pc = "cache"
    /\ cover.lock = 0
    /\ cover' = [cover EXCEPT !.lock = r, !.viewer[r].pc = "locked"]
    /\ UNCHANGED <<ops, albums, records, locked, creating, stopping, resp,
                   workbook, worker, hist, cl_error, cl_result, call>>

\* cache_cover_url under the lock, whatever is cached already: the URL and
\* its timestamp are saved
CoverStoreOverwrite(r) ==
    LET v == cover.viewer[r] IN
    /\ v.pc = "locked"
    /\ cover' = [cover EXCEPT
          !.spotify_cover_url = v.cover_url,
          !.spotify_cover_cached_at = cover.now,
          !.now = @ + 1,
          !.lock = 0,
          !.viewer[r] = [v EXCEPT !.pc = "done", !.response = "fetched"]]
    /\ UNCHANGED <<ops, albums, records, locked, creating, stopping, resp,
                   workbook, worker, hist, cl_error, cl_result, call>>

\* cache_cover_url under the lock: return when already cached, else save the
\* URL and its timestamp; the transaction ends and the fetched art is
\* rendered
CoverStore(r) ==
    LET v == cover.viewer[r]
        cached == cover.spotify_cover_url # 0
    IN
    /\ v.pc = "locked"
    /\ cover' = [cover EXCEPT
          !.spotify_cover_url = IF cached THEN @ ELSE v.cover_url,
          !.spotify_cover_cached_at = IF cached THEN @ ELSE cover.now,
          !.now = IF cached THEN @ ELSE @ + 1,
          !.lock = 0,
          !.viewer[r] = [v EXCEPT !.pc = "done", !.response = "fetched"]]
    /\ UNCHANGED <<ops, albums, records, locked, creating, stopping, resp,
                   workbook, worker, hist, cl_error, cl_result, call>>

\* cache_metadata(album_id, metadata) called by a request that obtained the
\* metadata: select_for_update waits for the lock of the same Album row
MetadataLock(r) ==
    LET v == cover.viewer[r] IN
    /\ v.pc = "start"
    /\ cover.lock = 0
    /\ \E metadata \in CacheValues :
          cover' = [cover EXCEPT
              !.lock = r,
              !.viewer[r] = [v EXCEPT !.pc = "metadata", !.metadata = metadata]]
    /\ UNCHANGED <<ops, albums, records, locked, creating, stopping, resp,
                   workbook, worker, hist, cl_error, cl_result, call>>

\* cache_metadata under the lock: return when already cached, else save the
\* metadata and its timestamp
MetadataStore(r) ==
    LET v == cover.viewer[r]
        cached == cover.spotify_metadata_json # 0
    IN
    /\ v.pc = "metadata"
    /\ cover' = [cover EXCEPT
          !.spotify_metadata_json = IF cached THEN @ ELSE v.metadata,
          !.spotify_metadata_cached_at = IF cached THEN @ ELSE cover.now,
          !.now = IF cached THEN @ ELSE @ + 1,
          !.lock = 0,
          !.viewer[r] = [v EXCEPT !.pc = "done", !.response = "metadata"]]
    /\ UNCHANGED <<ops, albums, records, locked, creating, stopping, resp,
                   workbook, worker, hist, cl_error, cl_result, call>>

(***************************************************************************)
(* sync_status: what a status poll answers on the stored rows              *)
(***************************************************************************)
\* the row .order_by(...).first() gives for a queryset that is not empty.
\* Rows are created in the order of their ids, and the runs of the
\* specifications this is applied to end in that order.
Latest(rows) == CHOOSE o \in rows : \A p \in rows : p <= o

\* sync_status on the table: the fragment returned, the HX-Trigger header
\* and the row the fragment is about (0 for none).  The first query takes
\* the pending or running rows, the second the completed or failed rows.
sync_status(table) ==
    LET active == {o \in DOMAIN table : table[o].status \in {"pending", "running"}}
        ended == {o \in DOMAIN table : table[o].status \in {"completed", "failed"}}
        last == Latest(ended)
    IN  IF active # {}
          THEN [fragment |-> "progress", trigger |-> "", sync |-> Latest(active)]
        ELSE IF ended = {}
          THEN [fragment |-> "idle", trigger |-> "", sync |-> 0]
        ELSE IF table[last].status = "completed"
          THEN [fragment |-> IF table[last].error_message.kind = "warning"
                               THEN "completed with warnings"
                               ELSE "complete",
                trigger |-> "syncCompleted, stopPolling", sync |-> last]
        ELSE IF table[last].status = "cancelled"
          THEN [fragment |-> "cancelled",
                trigger |-> "syncCancelled, stopPolling", sync |-> last]
        ELSE [fragment |-> "failed", trigger |-> "syncFailed, stopPolling",
              sync |-> last]

(***************************************************************************)
(* Functions of the import pipeline, one call at a time                    *)
(***************************************************************************)
NoCall == [fn |-> "none"]

\* TabMetadata.year is Optional[int]: <<>> stands for None, <<y>> for y
NoYear == <<>>
Years == {NoYear} \cup {<<y>> : y \in 0..MaxYear}

\* the tabs enumerate_tabs builds: order is the position in the workbook
TabLists ==
    UNION {{[i \in 1..n |-> [order |-> i - 1, year |-> ys[i]]] :
                ys \in [1..n -> Years]} : n \in 0..MaxTabs}

\* an insertion that moves the tab in front of its equal-year predecessors
RECURSIVE InsertByYearUnstable(_, _)
InsertByYearUnstable(sorted, t) ==
    IF sorted = <<>> THEN <<t>>
    ELSE IF Head(sorted).year[1] < t.year[1]
      THEN <<Head(sorted)>> \o InsertByYearUnstable(Tail(sorted), t)
      ELSE <<t>> \o sorted

\* list.sort(key=lambda t: t.year) is stable: a tab goes behind every tab
\* already placed whose year is not larger
RECURSIVE InsertByYear(_, _)
InsertByYear(sorted, t) ==
    IF sorted = <<>> THEN <<t>>
    ELSE IF Head(sorted).year[1] <= t.year[1]
      THEN <<Head(sorted)>> \o InsertByYear(Tail(sorted), t)
      ELSE <<t>> \o sorted

RECURSIVE SortByYear(_)
SortByYear(tabs) ==
    IF tabs = <<>> THEN <<>>
    ELSE InsertByYear(SortByYear(SubSeq(tabs, 1, Len(tabs) - 1)),
                      tabs[Len(tabs)])

sort_tabs_chronologically(tabs) ==
    LET with_year == SelectSeq(tabs, LAMBDA t : t.year # NoYear)
        without_year == SelectSeq(tabs, LAMBDA t : t.year = NoYear)
    IN  SortByYear(with_year) \o without_year

CallSort ==
    /\ call.fn = "sort_tabs_chronologically"
    /\ ~call.done
    /\ call' = [call EXCEPT !.done = TRUE,
                            !.result = sort_tabs_chronologically(call.tabs)]
    /\ UNCHANGED <<ops, albums, records, locked, creating, stopping, resp,
                   workbook, worker, hist, cl_error, cl_result, cover>>

\* the characters of tab labels
Digits == {"0", "1", "2", "3", "4", "5", "6", "7", "8", "9"}
Letters ==
    {"A", "B", "C", "D", "E", "F", "G", "H", "I", "J", "K", "L", "M", "N",
     "O", "P", "Q", "R", "S", "T", "U", "V", "W", "X", "Y", "Z", "a", "b",
     "c", "d", "e", "f", "g", "h", "i", "j", "k", "l", "m", "n", "o", "p",
     "q", "r", "s", "t", "u", "v", "w", "x", "y", "z"}
Whitespace == {" ", "\n", "\t"}

EndsWith(str, suffix) ==
    /\ Len(str) >= Len(suffix)
    /\ SubSeq(str, Len(str) - Len(suffix) + 1, Len(str)) = suffix

ProgMetalSuffix == <<" ", "P", "r", "o", "g", "-", "m", "e", "t", "a", "l">>
ProgRockSuffix == <<" ", "P", "r", "o", "g", "-", "r", "o", "c", "k">>

\* re.match(r"^\d{4}$", tab_name): four digits at the start, then the end of
\* the string; "$" also matches just before a newline that ends the string
MatchFourDigits(tab_name) ==
    /\ Len(tab_name) >= 4
    /\ \A i \in 1..4 : tab_name[i] \in Digits
    /\ \/ Len(tab_name) = 4
       \/ Len(tab_name) = 5 /\ tab_name[5] = "\n"

is_prog_metal_tab(tab_name) ==
    IF EndsWith(tab_name, ProgMetalSuffix) THEN TRUE
    ELSE IF EndsWith(tab_name, ProgRockSuffix) THEN TRUE
    ELSE IF MatchFourDigits(tab_name) THEN TRUE
    ELSE FALSE

\* str.strip()
RECURSIVE LStrip(_)
LStrip(str) ==
    IF str # <<>> /\ Head(str) \in Whitespace THEN LStrip(Tail(str)) ELSE str

RECURSIVE RStrip(_)
RStrip(str) ==
    IF str # <<>> /\ str[Len(str)] \in Whitespace
      THEN RStrip(SubSeq(str, 1, Len(str) - 1))
      ELSE str

Strip(str) == RStrip(LStrip(str))

\* the pair (normalized_name, is_valid); every character of the model is ASCII
normalize_tab_name(raw_name) ==
    LET normalized == Strip(raw_name) IN
    IF raw_name = <<>> THEN <<<<>>, FALSE>>
    ELSE IF normalized = <<>> THEN <<<<>>, FALSE>>
    ELSE IF \E i \in DOMAIN normalized :
              normalized[i] \in Whitespace /\ normalized[i] # " "
      THEN <<<<>>, FALSE>>
    ELSE IF ~(\A i \in DOMAIN normalized :
                \/ normalized[i] \in Digits \cup Letters
                \/ normalized[i] \in {" ", "-", "_"})
      THEN <<<<>>, FALSE>>
    ELSE <<normalized, TRUE>>

\* enumerate_tabs: one TabMetadata per valid sheet name, in workbook order
RECURSIVE EnumerateFrom(_, _)
EnumerateFrom(sheetnames, order) ==
    IF order > Len(sheetnames) THEN <<>>
    ELSE LET sheet_name == sheetnames[order]
             n == normalize_tab_name(sheet_name)
         IN  IF ~n[2] THEN EnumerateFrom(sheetnames, order + 1)
             ELSE <<[name |-> sheet_name, normalized_name |-> n[1],
                     order |-> order - 1,
                     is_prog_metal |-> is_prog_metal_tab(n[1])]>>
                  \o EnumerateFrom(sheetnames, order + 1)

enumerate_tabs(sheetnames) == EnumerateFrom(sheetnames, 1)

filter_tabs(tabs) == SelectSeq(tabs, LAMBDA tab : tab.is_prog_metal)

\* labels: up to MaxLabelLen pieces, each a character or a whole suffix
LabelAtoms ==
    {<<"2">>, <<"S">>, <<" ">>, <<"\n">>, ProgMetalSuffix, ProgRockSuffix,
     <<" ", "p", "r", "o", "g", "-", "m", "e", "t", "a", "l">>}

RECURSIVE Flatten(_)
Flatten(pieces) ==
    IF pieces = <<>> THEN <<>> ELSE Head(pieces) \o Flatten(Tail(pieces))

Labels(max_len) ==
    UNION {{Flatten(p) : p \in [1..n -> LabelAtoms]} : n \in 0..max_len}

\* sheet names of a workbook
SheetNames ==
    {<<"2", "0", "2", "5", " ", "P", "r", "o", "g", "-", "m", "e", "t", "a", "l">>,
     <<"2", "0", "2", "5", " ", "P", "r", "o", "g", "-", "r", "o", "c", "k">>,
     <<"2", "0", "1", "7">>,
     <<"S", "t", "a", "t", "i", "s", "t", "i", "c", "s">>,
     <<"2", "0", "2", "5", " ", "R", "e", "i", "s", "s", "u", "e", "s">>,
     <<"I", "n", "f", "o">>,
     <<" ", "2", "0", "1", "7", "\n">>,
     <<" ">>}

SheetNameLists ==
    UNION {[1..n -> SheetNames] : n \in 0..MaxTabs}

CallIsProgMetal ==
    /\ call.fn = "is_prog_metal_tab"
    /\ ~call.done
    /\ call' = [call EXCEPT !.done = TRUE,
                            !.result = is_prog_metal_tab(call.tab_name)]
    /\ UNCHANGED <<ops, albums, records, locked, creating, stopping, resp,
                   workbook, worker, hist, cl_error, cl_result, cover>>

CallEnumerate ==
    /\ call.fn = "filter_tabs"
    /\ ~call.enumerated
    /\ call' = [call EXCEPT !.enumerated = TRUE,
                            !.tabs = enumerate_tabs(call.sheetnames)]
    /\ UNCHANGED <<ops, albums, records, locked, creating, stopping, resp,
                   workbook, worker, hist, cl_error, cl_result, cover>>

CallFilter ==
    /\ call.fn = "filter_tabs"
    /\ call.enumerated
    /\ ~call.done
    /\ call' = [call EXCEPT !.done = TRUE, !.result = filter_tabs(call.tabs)]
    /\ UNCHANGED <<ops, albums, records, locked, creating, stopping, resp,
                   workbook, worker, hist, cl_error, cl_result, cover>>

\* release values that are text: words separated by one space, each word a
\* month name, a day number or anything else
MonthName(m) == [kind |-> "month", n |-> m]
DayNumber(d) == [kind |-> "day", n |-> d]
OtherWord == [kind |-> "word", n |-> 0]

Words ==
    {MonthName(m) : m \in 1..12}
        \cup {DayNumber(d) : d \in {0, 1, 15, 28, 29, 30, 31, 32}}
        \cup {OtherWord}

Texts(max_words) == UNION {[1..n -> Words] : n \in 0..max_words}

\* the years extract_year can hand over with a tab
TabYears == {999, 1000, 2024, 2025}

IsLeap(year) == year % 4 = 0 /\ (year % 100 # 0 \/ year % 400 = 0)

DaysInMonth(month, year) ==
    IF month = 2 THEN (IF IsLeap(year) THEN 29 ELSE 28)
    ELSE IF month \in {4, 6, 9, 11} THEN 30
    ELSE 31

\* datetime.strptime(f"{text}, {year}", "%B %d, %Y").date(): %d takes a day
\* number from 1 to 31, %Y takes exactly four digits, and the date has to
\* exist; everything else is a ValueError.  A date is <<year, month, day>>.
ValueError == <<"ValueError">>

strptime(text, year) ==
    IF /\ Len(text) = 2
       /\ text[1].kind = "month"
       /\ text[2].kind = "day"
       /\ text[2].n \in 1..31
       /\ year >= 1000 /\ year <= 9999
       /\ text[2].n <= DaysInMonth(text[1].n, year)
      THEN <<year, text[1].n, text[2].n>>
      ELSE ValueError

NoDate == <<>>

\* the branch of parse_release_date for a value that is text
parse_release_date(date_str, year) ==
    IF date_str = <<>> THEN NoDate
    ELSE LET parsed == strptime(date_str, year) IN
         IF parsed # ValueError THEN parsed
         ELSE LET month_only == strptime(date_str \o <<DayNumber(1)>>, year)
              IN  IF month_only # ValueError THEN month_only ELSE NoDate

CallParseDate ==
    /\ call.fn = "parse_release_date"
    /\ ~call.done
    /\ call' = [call EXCEPT
          !.done = TRUE,
          !.result = parse_release_date(call.date_value, call.year)]
    /\ UNCHANGED <<ops, albums, records, locked, creating, stopping, resp,
                   workbook, worker, hist, cl_error, cl_result, cover>>

\* release values that are structured: openpyxl hands a date cell over as a
\* datetime, and a date object takes the branch below it; both carry a day
\* that exists
CellYears == {2024, 2025}

StructuredDates ==
    {[type |-> t, year |-> y, month |-> m, day |-> d] :
        t \in {"datetime", "date"}, y \in CellYears, m \in 1..12,
        d \in {1, 28, 29, 30, 31}} \ 
    {v \in [type : {"datetime", "date"}, year : CellYears, month : 1..12,
             day : {1, 28, 29, 30, 31}] :
        v.day > DaysInMonth(v.month, v.year)}

\* date_value.replace(year=year): the year has to lie in 1..9999 and the day
\* has to exist in the month of the new year, else ValueError
replace(date_value, year) ==
    IF /\ year >= 1 /\ year <= 9999
       /\ date_value.day <= DaysInMonth(date_value.month, year)
      THEN <<year, date_value.month, date_value.day>>
      ELSE ValueError

\* parse_release_date on a cell value: a value is [type |-> "NoneType"], a
\* structured date, or [type |-> "str", text |-> ...].  The two structured
\* branches sit outside every try block, so a ValueError of replace leaves
\* the function; the result ValueError stands for that.
parse_release_value(date_value, year) ==
    IF date_value.type = "NoneType" THEN NoDate
    ELSE IF date_value.type \in {"datetime", "date"}
      THEN IF date_value.year # year
             THEN replace(date_value, year)
             ELSE <<date_value.year, date_value.month, date_value.day>>
      ELSE parse_release_date(date_value.text, year)

CellValues ==
    {[type |-> "NoneType"]}
        \cup StructuredDates
        \cup {[type |-> "str", text |-> t] : t \in Texts(2)}

CallParseValue ==
    /\ call.fn = "parse_release_date"
    /\ ~call.done
    /\ call' = [call EXCEPT
          !.done = TRUE,
          !.result = parse_release_value(call.date_value, call.year)]
    /\ UNCHANGED <<ops, albums, records, locked, creating, stopping, resp,
                   workbook, worker, hist, cl_error, cl_result, cover>>

\* str.lower() and the order of characters; every character is ASCII
UpperCase ==
    <<"A", "B", "C", "D", "E", "F", "G", "H", "I", "J", "K", "L", "M", "N",
      "O", "P", "Q", "R", "S", "T", "U", "V", "W", "X", "Y", "Z">>
LowerCase ==
    <<"a", "b", "c", "d", "e", "f", "g", "h", "i", "j", "k", "l", "m", "n",
      "o", "p", "q", "r", "s", "t", "u", "v", "w", "x", "y", "z">>
Ascii ==
    <<"\t", "\n", " ", ",", "-", "0", "1", "2", "3", "4", "5", "6", "7", "8",
      "9">> \o UpperCase \o <<"_">> \o LowerCase

CodePoint(c) == CHOOSE i \in DOMAIN Ascii : Ascii[i] = c

LowerChar(c) ==
    IF \E i \in DOMAIN UpperCase : UpperCase[i] = c
      THEN LowerCase[CHOOSE i \in DOMAIN UpperCase : UpperCase[i] = c]
      ELSE c

RECURSIVE Lower(_)
Lower(str) ==
    IF str = <<>> THEN <<>> ELSE <<LowerChar(Head(str))>> \o Lower(Tail(str))

\* needle in hay
Contains(hay, needle) ==
    \E i \in 0..(Len(hay) - Len(needle)) :
        SubSeq(hay, i + 1, i + Len(needle)) = needle

\* a split that keeps the text in one piece
NoSplit(str) == <<str>>

\* str.split(",")
RECURSIVE SplitComma(_)
SplitComma(str) ==
    IF \E k \in DOMAIN str : str[k] = ","
      THEN LET k == CHOOSE k \in DOMAIN str :
                        /\ str[k] = ","
                        /\ \A j \in 1..(k - 1) : str[j] # ","
           IN  <<SubSeq(str, 1, k - 1)>>
                   \o SplitComma(SubSeq(str, k + 1, Len(str)))
      ELSE <<str>>

\* django.utils.text.slugify: lower case, drop what is not a word character,
\* white space or a dash, turn every run of dashes and white space into one
\* dash, strip dashes and underscores at both ends
RECURSIVE DropRun(_)
DropRun(str) ==
    IF str # <<>> /\ Head(str) \in Whitespace \cup {"-"}
      THEN DropRun(Tail(str))
      ELSE str

RECURSIVE Dashes(_)
Dashes(str) ==
    IF str = <<>> THEN <<>>
    ELSE IF Head(str) \in Whitespace \cup {"-"}
      THEN <<"-">> \o Dashes(DropRun(str))
      ELSE <<Head(str)>> \o Dashes(Tail(str))

RECURSIVE StripDashes(_)
StripDashes(str) ==
    IF str # <<>> /\ Head(str) \in {"-", "_"} THEN StripDashes(Tail(str))
    ELSE IF str # <<>> /\ str[Len(str)] \in {"-", "_"}
      THEN StripDashes(SubSeq(str, 1, Len(str) - 1))
      ELSE str

slugify(name) ==
    LET kept == SelectSeq(Lower(name),
                    LAMBDA c : c \in Digits \cup Letters \cup Whitespace
                                       \cup {"-", "_"})
    IN  StripDashes(Dashes(kept))

\* a Genre row; name and slug are unique in the table
NewGenre(name) == [name |-> name, slug |-> slugify(name)]

ProgressiveMetal == <<"P", "r", "o", "g", "r", "e", "s", "s", "i", "v", "e", " ", "M", "e", "t", "a", "l">>

\* Meta.ordering = ["name"], compared character by character
RECURSIVE NameBefore(_, _)
NameBefore(a, b) ==
    IF a = <<>> THEN TRUE
    ELSE IF b = <<>> THEN FALSE
    ELSE IF Head(a) = Head(b) THEN NameBefore(Tail(a), Tail(b))
    ELSE CodePoint(Head(a)) < CodePoint(Head(b))

\* the outcome of resolving names against the Genre table: the genres
\* found or created so far, the table, and the exception raised, if any
Resolved(genres, table, raised) ==
    [genres |-> genres, table |-> table, raised |-> raised]

\* Genre.objects.get_or_create(name=..., defaults={"slug": ...})
get_or_create(table, name) ==
    IF \E g \in table : g.name = name
      THEN Resolved(<<CHOOSE g \in table : g.name = name>>, table, "none")
    ELSE IF \E g \in table : g.slug = slugify(name)
      THEN Resolved(<<>>, table, "IntegrityError")
    ELSE Resolved(<<NewGenre(name)>>, table \cup {NewGenre(name)}, "none")

\* a loop body without the exact match: the first stored genre whose name
\* is contained in the name, else a new genre
MapGenreSubstringOnly(table, genre_name) ==
    LET partial == {g \in table : Contains(Lower(genre_name), Lower(g.name))}
    IN  IF partial # {}
          THEN Resolved(<<CHOOSE g \in partial :
                              \A h \in partial : NameBefore(g.name, h.name)>>,
                        table, "none")
        ELSE get_or_create(table, genre_name)

\* the body of the loop of _map_genres for one name
MapGenre(table, genre_name) ==
    LET exact == {g \in table : Lower(g.name) = Lower(genre_name)}
        partial == {g \in table : Contains(Lower(genre_name), Lower(g.name))}
    IN  IF Cardinality(exact) = 1
          THEN Resolved(<<CHOOSE g \in exact : TRUE>>, table, "none")
        ELSE IF Cardinality(exact) > 1
          THEN Resolved(<<>>, table, "MultipleObjectsReturned")
        ELSE IF partial # {}
          THEN Resolved(<<CHOOSE g \in partial :
                              \A h \in partial : NameBefore(g.name, h.name)>>,
                        table, "none")
        ELSE get_or_create(table, genre_name)

RECURSIVE MapGenres(_, _, _)
MapGenres(genres, table, genre_names) ==
    IF genre_names = <<>> THEN Resolved(genres, table, "none")
    ELSE LET one == MapGenre(table, Head(genre_names)) IN
         IF one.raised # "none" THEN Resolved(<<>>, one.table, one.raised)
         ELSE MapGenres(genres \o one.genres, one.table, Tail(genre_names))

map_genres(table, genre_text) ==
    LET pieces == SplitComma(genre_text)
        stripped == [i \in DOMAIN pieces |-> Strip(pieces[i])]
        genre_names == SelectSeq(stripped, LAMBDA g : g # <<>>)
    IN  IF genre_text = <<>> THEN get_or_create(table, ProgressiveMetal)
        ELSE IF genre_names = <<>> THEN get_or_create(table, ProgressiveMetal)
        ELSE MapGenres(<<>>, table, genre_names)

BlackMetal == <<"B", "l", "a", "c", "k", " ", "M", "e", "t", "a", "l">>
Mathcore == <<"M", "a", "t", "h", "c", "o", "r", "e">>
BlackMetalMathcore == <<"B", "l", "a", "c", "k", " ", "M", "e", "t", "a", "l", ",", " ", "M", "a", "t", "h", "c", "o", "r", "e">>

\* "Genre / Subgenres" cells
GenreTexts ==
    {BlackMetalMathcore, <<>>, <<" ", ",", " ">>, <<"M", "e", "t", "a", "l">>,
     <<"M", "a", "t", "h", "c", "o", "r", "e", ",", "B", "l", "a", "c", "k", " ", "M", "e", "t", "a", "l", ",">>}

\* names of genres stored by earlier imports
GenreNames ==
    {BlackMetal, Mathcore, ProgressiveMetal,
     <<"M", "e", "t", "a", "l">>, <<"M", "a", "t", "h">>,
     <<"b", "l", "a", "c", "k", " ", "m", "e", "t", "a", "l">>,
     <<"B", "l", "a", "c", "k", "-", "M", "e", "t", "a", "l">>}

GenreTables ==
    {t \in SUBSET {NewGenre(n) : n \in GenreNames} :
        /\ Cardinality(t) <= MaxGenres
        /\ \A g, h \in t : g.slug = h.slug => g = h}

\* one call of _map_genres on the table the calls before it have left
CallMapGenres ==
    /\ call.fn = "_map_genres"
    /\ Len(call.results) < MaxCalls
    /\ call.raised = "none"
    /\ LET r == map_genres(call.table, call.genre_text) IN
       call' = [call EXCEPT !.results = Append(@, r.genres),
                            !.tables = Append(@, r.table),
                            !.table = r.table,
                            !.raised = r.raised]
    /\ UNCHANGED <<ops, albums, records, locked, creating, stopping, resp,
                   workbook, worker, hist, cl_error, cl_result, cover>>

(***************************************************************************)
(* Worksheets: _find_header_row and fetch_albums_from_tab                  *)
(***************************************************************************)
\* a cell has a value (<<>> stands for None, text is a string of
\* characters) and a hyperlink (<<>> for none, <<target>> otherwise); a
\* worksheet is its rows from row 1 on, and every cell outside is empty
EmptyCell == [value |-> <<>>, hyperlink |-> <<>>]
ValueCell(value) == [value |-> value, hyperlink |-> <<>>]
LinkCell(value, target) == [value |-> value, hyperlink |-> <<target>>]

\* worksheet.cell(row=row, column=column) raises ValueError ("Row or column
\* values must be at least 1") below 1
CellRaises(row, column) == row < 1 \/ column < 1

worksheet_cell(worksheet, row, column) ==
    IF row <= Len(worksheet) /\ column <= Len(worksheet[row])
      THEN worksheet[row][column]
      ELSE EmptyCell

ArtistHeader == <<"A", "r", "t", "i", "s", "t">>
AlbumHeader == <<"A", "l", "b", "u", "m">>
ReleaseDateHeader == <<"R", "e", "l", "e", "a", "s", "e", " ", "D", "a", "t", "e">>
LengthHeader == <<"L", "e", "n", "g", "t", "h">>
GenreHeader == <<"G", "e", "n", "r", "e", " ", "/", " ", "S", "u", "b", "g", "e", "n", "r", "e", "s">>
VocalStyleHeader == <<"V", "o", "c", "a", "l", " ", "S", "t", "y", "l", "e">>
CountryHeader == <<"C", "o", "u", "n", "t", "r", "y", " ", "/", " ", "S", "t", "a", "t", "e">>
SpotifyHeader == <<"S", "p", "o", "t", "i", "f", "y">>

\* range(1, 20)
HeaderScanStop == 20

\* the loop of _find_header_row from row_idx on; 0 stands for the
\* ValueError raised after the loop
RECURSIVE FindHeaderFrom(_, _)
FindHeaderFrom(worksheet, row_idx) ==
    IF row_idx >= HeaderScanStop THEN 0
    ELSE IF worksheet_cell(worksheet, row_idx, 1).value = ArtistHeader THEN row_idx
    ELSE FindHeaderFrom(worksheet, row_idx + 1)

find_header_row(worksheet) == FindHeaderFrom(worksheet, 1)

\* the header cells of the row, up to the first cell without a value
RECURSIVE HeadersFrom(_, _, _)
HeadersFrom(worksheet, header_row, col_idx) ==
    IF worksheet_cell(worksheet, header_row, col_idx).value = <<>> THEN <<>>
    ELSE <<worksheet_cell(worksheet, header_row, col_idx).value>>
             \o HeadersFrom(worksheet, header_row, col_idx + 1)

\* col_mapping.get(header, 0): a header found twice maps to its last column
ColumnOf(headers, header) ==
    IF \E i \in DOMAIN headers : headers[i] = header
      THEN CHOOSE i \in DOMAIN headers :
               /\ headers[i] = header
               /\ \A j \in DOMAIN headers : headers[j] = header => j <= i
      ELSE 0

StartsWith(str, prefix) ==
    /\ Len(str) >= Len(prefix)
    /\ SubSeq(str, 1, Len(prefix)) = prefix

HyperlinkOpen == <<"=", "H", "Y", "P", "E", "R", "L", "I", "N", "K", "(", "\"">>

\* the characters of str from position i up to the next double quote
RECURSIVE UpToQuote(_, _)
UpToQuote(str, i) ==
    IF i > Len(str) \/ str[i] = "\"" THEN <<>>
    ELSE <<str[i]>> \o UpToQuote(str, i + 1)

\* re.search(r'=HYPERLINK\("([^"]+)"', value): the positions where the
\* pattern matches, and group 1 of the first of them
MatchesAt(str, i) ==
    LET rest == SubSeq(str, i, Len(str))
        url == UpToQuote(rest, Len(HyperlinkOpen) + 1)
    IN  /\ StartsWith(rest, HyperlinkOpen)
        /\ url # <<>>
        /\ Len(HyperlinkOpen) + Len(url) < Len(rest)

\* _extract_url_from_cell; <<>> stands for None
extract_url_from_cell(c) ==
    IF c.hyperlink # <<>> THEN c.hyperlink[1]
    ELSE IF c.value # <<>> /\ StartsWith(c.value, <<"=", "H", "Y", "P", "E", "R", "L", "I", "N", "K">>)
      THEN LET at == {i \in DOMAIN c.value : MatchesAt(c.value, i)} IN
           IF at = {} THEN <<>>
           ELSE LET first == CHOOSE i \in at : \A j \in at : i <= j
                IN  UpToQuote(c.value, first + Len(HyperlinkOpen))
    ELSE <<>>

\* the outcome of fetch_albums_from_tab: the rows returned, or the
\* exception that left the function
Fetched(rows) == [raised |-> "none", albums |-> rows]
FetchRaised(exc) == [raised |-> exc, albums |-> <<>>]

\* a loop that ends at the first row without an album or a URL
RECURSIVE ParseRowsStopAtSkip(_, _, _, _, _)
ParseRowsStopAtSkip(worksheet, headers, tab_year, row_idx, found) ==
    LET col(header) == ColumnOf(headers, header)
        value(header) == worksheet_cell(worksheet, row_idx, col(header)).value
        artist == value(ArtistHeader)
        album == value(AlbumHeader)
        spotify_url ==
            extract_url_from_cell(worksheet_cell(worksheet, row_idx, col(SpotifyHeader)))
        next(rows) ==
            ParseRowsStopAtSkip(worksheet, headers, tab_year, row_idx + 1, rows)
    IN  IF col(ArtistHeader) = 0 THEN FetchRaised("KeyError")
        ELSE IF artist = <<>> THEN Fetched(found)
        ELSE IF col(AlbumHeader) = 0 THEN FetchRaised("KeyError")
        ELSE IF album = <<>> THEN Fetched(found)
        ELSE IF col(SpotifyHeader) = 0 THEN FetchRaised("KeyError")
        ELSE IF spotify_url = <<>> THEN Fetched(found)
        ELSE IF \E header \in {ReleaseDateHeader, GenreHeader,
                               VocalStyleHeader, CountryHeader} :
                    CellRaises(row_idx, col(header))
          THEN FetchRaised("ValueError")
        ELSE next(Append(found,
                 [artist |-> Strip(artist),
                  album |-> Strip(album),
                  release_date |-> value(ReleaseDateHeader),
                  genre |-> Strip(value(GenreHeader)),
                  vocal_style |-> Strip(value(VocalStyleHeader)),
                  country |-> Strip(value(CountryHeader)),
                  spotify_url |-> spotify_url,
                  tab_year |-> tab_year]))

\* the while loop over the data rows from row_idx on
RECURSIVE ParseRows(_, _, _, _, _)
ParseRows(worksheet, headers, tab_year, row_idx, found) ==
    LET col(header) == ColumnOf(headers, header)
        value(header) == worksheet_cell(worksheet, row_idx, col(header)).value
        artist == value(ArtistHeader)
        album == value(AlbumHeader)
        spotify_url ==
            extract_url_from_cell(worksheet_cell(worksheet, row_idx, col(SpotifyHeader)))
        next(rows) ==
            ParseRows(worksheet, headers, tab_year, row_idx + 1, rows)
    IN  IF col(ArtistHeader) = 0 THEN FetchRaised("KeyError")
        ELSE IF artist = <<>> THEN Fetched(found)
        ELSE IF col(AlbumHeader) = 0 THEN FetchRaised("KeyError")
        ELSE IF album = <<>> THEN next(found)
        ELSE IF col(SpotifyHeader) = 0 THEN FetchRaised("KeyError")
        ELSE IF spotify_url = <<>> THEN next(found)
        ELSE IF \E header \in {ReleaseDateHeader, GenreHeader,
                               VocalStyleHeader, CountryHeader} :
                    CellRaises(row_idx, col(header))
          THEN FetchRaised("ValueError")
        ELSE next(Append(found,
                 [artist |-> Strip(artist),
                  album |-> Strip(album),
                  release_date |-> value(ReleaseDateHeader),
                  genre |-> Strip(value(GenreHeader)),
                  vocal_style |-> Strip(value(VocalStyleHeader)),
                  country |-> Strip(value(CountryHeader)),
                  spotify_url |-> spotify_url,
                  tab_year |-> tab_year]))

\* fetch_albums_from_tab on the worksheet of a tab that is in the workbook
fetch_albums_from_tab(worksheet, tab_year) ==
    LET header_row == find_header_row(worksheet) IN
    IF header_row = 0 THEN FetchRaised("ValueError")
    ELSE ParseRows(worksheet, HeadersFrom(worksheet, header_row, 1),
                   tab_year, header_row + 1, <<>>)

CallFindHeader ==
    /\ call.fn = "_find_header_row"
    /\ ~call.done
    /\ call' = [call EXCEPT !.done = TRUE,
                            !.result = find_header_row(call.worksheet)]
    /\ UNCHANGED <<ops, albums, records, locked, creating, stopping, resp,
                   workbook, worker, hist, cl_error, cl_result, cover>>

CallFetchTab ==
    /\ call.fn = "fetch_albums_from_tab"
    /\ ~call.done
    /\ call' = [call EXCEPT
          !.done = TRUE,
          !.result = fetch_albums_from_tab(call.worksheet, call.tab_year)]
    /\ UNCHANGED <<ops, albums, records, locked, creating, stopping, resp,
                   workbook, worker, hist, cl_error, cl_result, cover>>

(***************************************************************************)
(* _import_single_album: one row merged into the catalog                   *)
(***************************************************************************)
MixedVocals == <<"M", "i", "x", "e", "d", " ", "V", "o", "c", "a", "l", "s", " ", "(", "C", "l", "e", "a", "n", " ", "&", " ", "H", "a", "r", "s", "h", ")">>
InstrumentalVocals == <<"I", "n", "s", "t", "r", "u", "m", "e", "n", "t", "a", "l", " ", "(", "N", "o", " ", "V", "o", "c", "a", "l", "s", ")">>
CleanVocals == <<"C", "l", "e", "a", "n", " ", "V", "o", "c", "a", "l", "s">>
HarshVocals == <<"H", "a", "r", "s", "h", " ", "V", "o", "c", "a", "l", "s">>

\* a resolution that looks for the clean keyword before the mixed one
map_vocal_style_clean_first(table, vocal_style_text) ==
    LET normalized == Lower(Strip(vocal_style_text))
        exact == {v \in table : Lower(v.name) = Lower(vocal_style_text)}
    IN  IF vocal_style_text = <<>> THEN get_or_create(table, MixedVocals)
        ELSE IF Cardinality(exact) = 1
          THEN Resolved(<<CHOOSE v \in exact : TRUE>>, table, "none")
        ELSE IF Cardinality(exact) > 1
          THEN Resolved(<<>>, table, "MultipleObjectsReturned")
        ELSE IF \/ Contains(normalized, <<"i", "n", "s", "t", "r", "u", "m", "e", "n", "t", "a", "l">>)
                \/ Contains(normalized, <<"n", "o", " ", "v", "o", "c", "a", "l">>)
          THEN get_or_create(table, InstrumentalVocals)
        ELSE IF Contains(normalized, <<"c", "l", "e", "a", "n">>)
          THEN get_or_create(table, CleanVocals)
        ELSE IF Contains(normalized, <<"m", "i", "x", "e", "d">>)
          THEN get_or_create(table, MixedVocals)
        ELSE IF \/ Contains(normalized, <<"h", "a", "r", "s", "h">>)
                \/ Contains(normalized, <<"s", "c", "r", "e", "a", "m">>)
                \/ Contains(normalized, <<"g", "r", "o", "w", "l">>)
          THEN get_or_create(table, HarshVocals)
        ELSE get_or_create(table, vocal_style_text)

\* _map_vocal_style on the VocalStyle table; a VocalStyle row has a unique
\* name and a unique slug, as a Genre row has
map_vocal_style(table, vocal_style_text) ==
    LET normalized == Lower(Strip(vocal_style_text))
        exact == {v \in table : Lower(v.name) = Lower(vocal_style_text)}
    IN  IF vocal_style_text = <<>> THEN get_or_create(table, MixedVocals)
        ELSE IF Cardinality(exact) = 1
          THEN Resolved(<<CHOOSE v \in exact : TRUE>>, table, "none")
        ELSE IF Cardinality(exact) > 1
          THEN Resolved(<<>>, table, "MultipleObjectsReturned")
        ELSE IF \/ Contains(normalized, <<"i", "n", "s", "t", "r", "u", "m", "e", "n", "t", "a", "l">>)
                \/ Contains(normalized, <<"n", "o", " ", "v", "o", "c", "a", "l">>)
          THEN get_or_create(table, InstrumentalVocals)
        ELSE IF Contains(normalized, <<"m", "i", "x", "e", "d">>)
          THEN get_or_create(table, MixedVocals)
        ELSE IF Contains(normalized, <<"c", "l", "e", "a", "n">>)
          THEN get_or_create(table, CleanVocals)
        ELSE IF \/ Contains(normalized, <<"h", "a", "r", "s", "h">>)
                \/ Contains(normalized, <<"s", "c", "r", "e", "a", "m">>)
                \/ Contains(normalized, <<"g", "r", "o", "w", "l">>)
          THEN get_or_create(table, HarshVocals)
        ELSE get_or_create(table, vocal_style_text)

\* one call of _map_vocal_style on the table the calls before it have left
CallMapVocalStyle ==
    /\ call.fn = "_map_vocal_style"
    /\ Len(call.results) < MaxCalls
    /\ call.raised = "none"
    /\ LET r == map_vocal_style(call.table, call.vocal_style_text) IN
       call' = [call EXCEPT !.results = Append(@, r.genres),
                            !.tables = Append(@, r.table),
                            !.table = r.table,
                            !.raised = r.raised]
    /\ UNCHANGED <<ops, albums, records, locked, creating, stopping, resp,
                   workbook, worker, hist, cl_error, cl_result, cover>>

\* the catalog tables.  artists is indexed by primary key; albums holds
\* one row per spotify_album_id; links is the Album.genres relation
Tables(artists, genres, vocal_styles, album_rows, links) ==
    [artists |-> artists, genres |-> genres, vocal_styles |-> vocal_styles,
     albums |-> album_rows, links |-> links]

NewArtist(name, country, spotify_artist_id) ==
    [name |-> name, country |-> country,
     spotify_artist_id |-> spotify_artist_id]

\* an Album row: the fields update_or_create is given, and the cache fields
\* album_cache fills when the album is viewed
NoCache ==
    [spotify_cover_url |-> "", spotify_cover_cached_at |-> 0,
     spotify_metadata_json |-> "", spotify_metadata_cached_at |-> 0]

AlbumRow(album_id, defaults, cache) ==
    [spotify_album_id |-> album_id,
     name |-> defaults.name,
     artist |-> defaults.artist,
     vocal_style |-> defaults.vocal_style,
     release_date |-> defaults.release_date,
     cover_art_url |-> defaults.cover_art_url,
     spotify_url |-> defaults.spotify_url,
     spotify_cover_url |-> cache.spotify_cover_url,
     spotify_cover_cached_at |-> cache.spotify_cover_cached_at,
     spotify_metadata_json |-> cache.spotify_metadata_json,
     spotify_metadata_cached_at |-> cache.spotify_metadata_cached_at]

CacheOf(row) ==
    [spotify_cover_url |-> row.spotify_cover_url,
     spotify_cover_cached_at |-> row.spotify_cover_cached_at,
     spotify_metadata_json |-> row.spotify_metadata_json,
     spotify_metadata_cached_at |-> row.spotify_metadata_cached_at]

\* Album.objects.update_or_create(spotify_album_id=album_id, defaults=...):
\* an existing row takes the values of defaults and keeps its other fields
update_or_create(album_rows, album_id, defaults) ==
    LET found == {a \in album_rows : a.spotify_album_id = album_id} IN
    IF found = {}
      THEN [albums |-> album_rows \cup {AlbumRow(album_id, defaults, NoCache)},
            created |-> TRUE]
      ELSE LET old == CHOOSE a \in found : TRUE IN
           [albums |-> (album_rows \ {old})
                          \cup {AlbumRow(album_id, defaults, CacheOf(old))},
            created |-> FALSE]

\* album.genres.set(genres)
set_genres(links, album_id, genres) ==
    {l \in links : l[1] # album_id}
        \cup {<<album_id, genres[i].name>> : i \in DOMAIN genres}

\* a statement of a function decorated with autocommit semantics: its
\* write is committed at once
InAutocommit(c, tables) == [c EXCEPT !.txn = tables, !.db = tables,
                                      !.wrote = @ \/ tables # c.txn]

\* a statement inside @transaction.atomic: its write stays in the
\* transaction, where only the importing thread reads it
InTransaction(c, tables) == [c EXCEPT !.txn = tables,
                                       !.wrote = @ \/ tables # c.txn]

\* an exception leaving the function: @transaction.atomic rolls back
Raise(c, exc) == [c EXCEPT !.pc = "raised", !.raised = exc, !.txn = c.db]

NoMetadata == <<>>
ImportCalled == call.fn = "_import_single_album"
Jit == call.spotify_metadata = NoMetadata

\* Artist.objects.get_or_create, by spotify_artist_id when there is
\* metadata and by name when there is none
ImportArtist ==
    /\ ImportCalled
    /\ call.pc = "artist"
    /\ LET artists == call.txn.artists
           found == IF Jit
                      THEN {i \in DOMAIN artists :
                               artists[i].name = call.sheets_data.artist}
                      ELSE {i \in DOMAIN artists :
                               artists[i].spotify_artist_id =
                                   call.spotify_metadata[1].artist_id}
           created == NewArtist(
               IF Jit THEN call.sheets_data.artist
                      ELSE call.spotify_metadata[1].artist_name,
               call.sheets_data.country,
               IF Jit THEN "" ELSE call.spotify_metadata[1].artist_id)
           next == IF Jit THEN "genres" ELSE "country"
       IN  IF Cardinality(found) > 1
             THEN call' = Raise(call, "MultipleObjectsReturned")
           ELSE IF Cardinality(found) = 1
             THEN call' = [call EXCEPT !.pc = next,
                                       !.artist = CHOOSE i \in found : TRUE]
           ELSE call' = [InTransaction(call,
                             [call.txn EXCEPT
                                 !.artists = Append(artists, created)])
                           EXCEPT !.pc = next,
                                  !.artist = Len(artists) + 1]
    /\ UNCHANGED <<ops, albums, records, locked, creating, stopping, resp,
                   workbook, worker, hist, cl_error, cl_result, cover>>

\* the country of an Artist found without one, on the path with metadata
ImportCountry ==
    /\ ImportCalled
    /\ call.pc = "country"
    /\ LET artist == call.txn.artists[call.artist] IN
       IF call.sheets_data.country # "" /\ artist.country = ""
         THEN call' = [InTransaction(call,
                           [call.txn EXCEPT !.artists[call.artist].country =
                                                call.sheets_data.country])
                         EXCEPT !.pc = "genres"]
         ELSE call' = [call EXCEPT !.pc = "genres"]
    /\ UNCHANGED <<ops, albums, records, locked, creating, stopping, resp,
                   workbook, worker, hist, cl_error, cl_result, cover>>

ImportGenres ==
    /\ ImportCalled
    /\ call.pc = "genres"
    /\ LET r == map_genres(call.txn.genres, call.sheets_data.genre) IN
       IF r.raised # "none"
         THEN call' = Raise(InTransaction(call,
                                [call.txn EXCEPT !.genres = r.table]),
                            r.raised)
         ELSE call' = [InTransaction(call,
                           [call.txn EXCEPT !.genres = r.table])
                         EXCEPT !.pc = "vocal_style", !.genres = r.genres]
    /\ UNCHANGED <<ops, albums, records, locked, creating, stopping, resp,
                   workbook, worker, hist, cl_error, cl_result, cover>>

ImportVocalStyle ==
    /\ ImportCalled
    /\ call.pc = "vocal_style"
    /\ LET r == map_vocal_style(call.txn.vocal_styles,
                                call.sheets_data.vocal_style) IN
       IF r.raised # "none"
         THEN call' = Raise(call, r.raised)
         ELSE call' = [InTransaction(call,
                           [call.txn EXCEPT !.vocal_styles = r.table])
                         EXCEPT !.pc = IF Jit THEN "release_date"
                                              ELSE "album",
                                !.vocal_style = r.genres[1].name]
    /\ UNCHANGED <<ops, albums, records, locked, creating, stopping, resp,
                   workbook, worker, hist, cl_error, cl_result, cover>>

\* the release date of the path without metadata: parse_release_date is
\* called for a cell that is not empty, and what it raises leaves the import
ImportReleaseDate ==
    /\ ImportCalled
    /\ call.pc = "release_date"
    /\ LET cell == call.sheets_data.release_date
           parsed == parse_release_value(cell, call.sheets_data.tab_year)
       IN  IF cell.type = "NoneType" \/ (cell.type = "str" /\ cell.text = <<>>)
             THEN call' = [call EXCEPT !.pc = "album"]
           ELSE IF parsed = ValueError
             THEN call' = Raise(call, "ValueError")
           ELSE call' = [call EXCEPT !.pc = "album", !.release_date = parsed]
    /\ UNCHANGED <<ops, albums, records, locked, creating, stopping, resp,
                   workbook, worker, hist, cl_error, cl_result, cover>>

\* the defaults handed to update_or_create on the path without metadata
JitDefaults(c) ==
    [name |-> c.sheets_data.album,
     artist |-> c.artist,
     vocal_style |-> c.vocal_style,
     release_date |-> c.release_date,
     cover_art_url |-> "",
     spotify_url |-> c.sheets_data.spotify_url]

\* the defaults handed to update_or_create on the path with metadata
EagerDefaults(c) ==
    [name |-> c.spotify_metadata[1].name,
     artist |-> c.artist,
     vocal_style |-> c.vocal_style,
     release_date |-> c.spotify_metadata[1].release_date,
     cover_art_url |-> c.spotify_metadata[1].cover_art_url,
     spotify_url |-> c.spotify_metadata[1].spotify_url]

ImportAlbum ==
    /\ ImportCalled
    /\ call.pc = "album"
    /\ LET r == update_or_create(call.txn.albums, call.album_id,
                                 IF Jit THEN JitDefaults(call)
                                        ELSE EagerDefaults(call))
       IN  call' = [InTransaction(call, [call.txn EXCEPT !.albums = r.albums])
                      EXCEPT !.pc = "links", !.created = r.created]
    /\ UNCHANGED <<ops, albums, records, locked, creating, stopping, resp,
                   workbook, worker, hist, cl_error, cl_result, cover>>

ImportLinks ==
    /\ ImportCalled
    /\ call.pc = "links"
    /\ call' = [InTransaction(call,
                    [call.txn EXCEPT
                        !.links = set_genres(@, call.album_id, call.genres)])
                  EXCEPT !.pc = "return"]
    /\ UNCHANGED <<ops, albums, records, locked, creating, stopping, resp,
                   workbook, worker, hist, cl_error, cl_result, cover>>

\* return created: the transaction commits
ImportReturn ==
    /\ ImportCalled
    /\ call.pc = "return"
    /\ call' = [call EXCEPT !.pc = "returned", !.db = call.txn]
    /\ UNCHANGED <<ops, albums, records, locked, creating, stopping, resp,
                   workbook, worker, hist, cl_error, cl_result, cover>>

\* a request of the catalog pages reads the committed tables while the
\* import is anywhere
Browse ==
    /\ ImportCalled
    /\ call.seen # <<call.db>>
    /\ call' = [call EXCEPT
          !.seen = <<call.db>>,
          !.seen_inside = @ \/ call.pc \notin {"artist", "returned", "raised"}]
    /\ UNCHANGED <<ops, albums, records, locked, creating, stopping, resp,
                   workbook, worker, hist, cl_error, cl_result, cover>>

(***************************************************************************)
(* Workbooks                                                               *)
(***************************************************************************)
Row0(id, fault) == [id |-> id, fault |-> fault]
Sheet0(fault, rows) == [fault |-> fault, rows |-> rows]

\* faults fetch_albums_from_tab raises in the modelled workbooks: a missing
\* header row (ValueError), an I/O failure, a read timeout
TabFaults == {FaultOf({"ValueError"}), FaultOf({"OSError"}), FaultOf({"ReadTimeout"})}

\* rows of a sheet: a Spotify id (0: the URL holds none) and whether the
\* import of the row raises
SheetRows ==
    {Row0(i, FALSE) : i \in 0..MaxAlbumId} \cup {Row0(i, TRUE) : i \in 1..MaxAlbumId}

\* what the extraction of one tab can give: it raises, or it returns up to
\* MaxRows rows.  rows[i] is the set of contents row i may have; the row is
\* read when the album loop reaches it
Sheets ==
    {Sheet0(f, <<>>) : f \in TabFaults}
      \cup {Sheet0(NoFault, [i \in 1..k |-> SheetRows]) : k \in 0..MaxRows}

\* sorted_tabs: the sorted in-scope tabs of the workbook.  A tab's name is
\* its position; sheets is the set of contents the export may serve for it
\* when a run extracts it
RunWorkbooks ==
    {[i \in 1..n |-> [name |-> i, sheets |-> Sheets]] : n \in 0..MaxTabs}

Fixed(sheets) ==
    [i \in DOMAIN sheets |->
        [name |-> i,
         sheets |-> {Sheet0(sheets[i].fault,
                            [j \in DOMAIN sheets[i].rows |-> {sheets[i].rows[j]}])}]]

\* the workbook of the concurrent specification, contents fixed: two tabs,
\* the second repeating an album of the first
SpecWorkbooks ==
    {Fixed(<<Sheet0(NoFault, <<Row0(1, FALSE), Row0(2, FALSE)>>),
             Sheet0(NoFault, <<Row0(1, FALSE)>>)>>)}

\* the workbooks of the one-run specification with cancellation, contents
\* fixed: up to MaxTabs tabs, tab i of i + 1 rows, later rows repeating albums
\* of earlier ones
TabRows(i) == [j \in 1..(i + 1) |-> Row0(((i + j) % MaxAlbumId) + 1, FALSE)]

CancelWorkbooks ==
    {Fixed([i \in 1..n |-> Sheet0(NoFault, TabRows(i))]) : n \in 1..MaxTabs}

\* the workbooks of the repeated-run specification, contents fixed: two
\* tabs of up to MaxRows rows that import without a fault, every assignment
\* of album ids to the rows
DedupSheets ==
    {Sheet0(NoFault, rows) :
        rows \in UNION {[1..k -> {Row0(i, FALSE) : i \in 0..MaxAlbumId}] :
                           k \in 0..MaxRows}}

DedupWorkbooks == {Fixed(<<a, b>>) : a, b \in DedupSheets}

\* the workbooks of the row-fault specification: one or two tabs whose
\* extraction succeeds, of up to MaxRows + 1 rows, any of which may be a row
\* whose import raises
RowFaultSheets ==
    {Sheet0(NoFault, [i \in 1..k |-> SheetRows]) : k \in 0..(MaxRows + 1)}

RowFaultWorkbooks ==
    {[i \in 1..n |-> [name |-> i, sheets |-> RowFaultSheets]] : n \in {1, 2}}

(***************************************************************************)
(* Specifications                                                          *)
(***************************************************************************)
InitTables ==
    /\ ops = <<>>
    /\ albums = {}
    /\ records = <<>>
    /\ locked = {}
    /\ creating = 0
    /\ stopping = [o \in 1..MaxOps |-> 0]
    /\ resp = [trigger |-> 0, stop |-> 0]
    /\ worker = <<>>
    /\ hist = <<>>
    /\ cover = NewCover

InitDb ==
    /\ InitTables
    /\ call = NoCall

\* trigger and stop requests arriving at any time, every worker running
Init ==
    /\ InitDb
    /\ workbook \in SpecWorkbooks
    /\ cl_error = NoFault
    /\ cl_result = <<>>

\* run_sync without its outer except branch
WorkerStepNoExcept(o) ==
    \/ RunStart(o)
    \/ TabLoop(o)
    \/ Row(o)
    \/ Import(o)
    \/ FinalCheck(o)
    \/ Complete(o)

WorkerStep(o) ==
    \/ RunStart(o)
    \/ TabLoop(o)
    \/ Row(o)
    \/ Import(o)
    \/ FinalCheck(o)
    \/ Complete(o)
    \/ Except(o)

Next ==
    \/ TriggerSelectNone
    \/ TriggerSelectActive
    \/ TriggerSelectLocked
    \/ TriggerCreate
    \/ StopSelectNone
    \/ StopSelectActive
    \/ \E o \in OpIds :
          \/ TriggerConflict(o)
          \/ StopWrite(o)
          \/ WorkerStep(o)

Spec == Init /\ [][Next]_vars

\* one run: trigger requests one at a time, the first of them creating the
\* SyncOperation, stop requests at any time, the worker running
NextCancel ==
    \/ (ops = <<>> /\ creating = 0 /\ TriggerSelectNone)
    \/ (TriggersInFlight = 0 /\ TriggerSelectActive)
    \/ TriggerCreate
    \/ StopSelectNone
    \/ StopSelectActive
    \/ \E o \in OpIds :
          \/ TriggerConflict(o)
          \/ StopWrite(o)
          \/ WorkerStep(o)

InitCancel ==
    /\ InitDb
    /\ workbook \in CancelWorkbooks
    /\ cl_error = NoFault
    /\ cl_result = <<>>

SpecCancel == InitCancel /\ [][NextCancel]_vars

\* trigger requests one at a time, each answered before the next arrives,
\* stop requests at any time, every worker running
NextRetrigger ==
    \/ (TriggersInFlight = 0 /\ TriggerSelectNone)
    \/ (TriggersInFlight = 0 /\ TriggerSelectActive)
    \/ TriggerCreate
    \/ StopSelectNone
    \/ StopSelectActive
    \/ \E o \in OpIds :
          \/ TriggerConflict(o)
          \/ StopWrite(o)
          \/ WorkerStep(o)

SpecRetrigger == Init /\ [][NextRetrigger]_vars

\* the one-run specification with the scheduling the claim of termination
\* assumes: the thread started by start_sync keeps being scheduled, and a
\* write of the worker that waits for a row lock obtains it once the lock is
\* released (strong fairness of the worker's steps); a trigger request that
\* holds the row lock returns its 409 (weak fairness).  Trigger and stop
\* requests arrive or not, as the users please.
FairCancel ==
    /\ SpecCancel
    /\ \A o \in 1..MaxOps :
          /\ SF_vars(o \in OpIds /\ WorkerStep(o))
          /\ WF_vars(o \in OpIds /\ TriggerConflict(o))

\* one trigger request and its run, nothing else in flight
InitRun ==
    /\ InitDb
    /\ workbook \in RunWorkbooks
    /\ cl_error = NoFault
    /\ cl_result = <<>>

NextRun ==
    \/ (ops = <<>> /\ creating = 0 /\ TriggerSelectNone)
    \/ TriggerCreate
    \/ \E o \in OpIds : WorkerStep(o)

SpecRun == InitRun /\ [][NextRun]_vars

\* runs one after the other over the same workbook: a trigger request
\* arrives only when no other is in flight
InitDedup ==
    /\ InitDb
    /\ workbook \in DedupWorkbooks
    /\ cl_error = NoFault
    /\ cl_result = <<>>

NextDedup ==
    \/ (creating = 0 /\ TriggerSelectNone)
    \/ TriggerCreate
    \/ \E o \in OpIds : WorkerStep(o)

SpecDedup == InitDedup /\ [][NextDedup]_vars

\* one run over a workbook whose rows may fail to import
InitRows ==
    /\ InitDb
    /\ workbook \in RowFaultWorkbooks
    /\ cl_error = NoFault
    /\ cl_result = <<>>

SpecRows == InitRows /\ [][NextRun]_vars

\* concurrent album_cover_art requests and cache_metadata calls for one
\* album
InitCover ==
    /\ InitDb
    /\ workbook = <<>>
    /\ cl_error = NoFault
    /\ cl_result = <<>>

NextCover ==
    \E r \in Viewers :
        \/ CoverCheck(r)
        \/ CoverFetch(r)
        \/ CoverLock(r)
        \/ CoverStore(r)
        \/ MetadataLock(r)
        \/ MetadataStore(r)

SpecCover == InitCover /\ [][NextCover]_vars

\* sort_tabs_chronologically applied to one list of tabs
InitIdle ==
    /\ InitTables
    /\ workbook = <<>>
    /\ cl_error = NoFault
    /\ cl_result = <<>>

InitSort ==
    /\ InitIdle
    /\ call \in {[fn |-> "sort_tabs_chronologically", tabs |-> ts,
                  done |-> FALSE, result |-> <<>>] : ts \in TabLists}

NextSort == CallSort

SpecSort == InitSort /\ [][NextSort]_vars

\* is_prog_metal_tab applied to one label, and filter_tabs applied to the
\* tabs enumerated from one workbook
InitLabel ==
    /\ InitIdle
    /\ call \in {[fn |-> "is_prog_metal_tab", tab_name |-> l,
                  done |-> FALSE, result |-> FALSE] :
                     l \in Labels(MaxLabelLen)}
         \cup {[fn |-> "filter_tabs", sheetnames |-> ns, enumerated |-> FALSE,
                tabs |-> <<>>, done |-> FALSE, result |-> <<>>] :
                   ns \in SheetNameLists}

NextLabel ==
    \/ CallIsProgMetal
    \/ CallEnumerate
    \/ CallFilter

SpecLabel == InitLabel /\ [][NextLabel]_vars

\* parse_release_date applied to one text value and one tab year
InitDate ==
    /\ InitIdle
    /\ call \in {[fn |-> "parse_release_date", date_value |-> t, year |-> y,
                  done |-> FALSE, result |-> NoDate] :
                     t \in Texts(MaxWords), y \in TabYears}

NextDate == CallParseDate

SpecDate == InitDate /\ [][NextDate]_vars

\* parse_release_date applied to one cell value of any type and one tab year
InitDateValue ==
    /\ InitIdle
    /\ call \in {[fn |-> "parse_release_date", date_value |-> v, year |-> y,
                  done |-> FALSE, result |-> NoDate] :
                     v \in CellValues, y \in TabYears}

NextDateValue == CallParseValue

SpecDateValue == InitDateValue /\ [][NextDateValue]_vars

\* _map_genres called again and again with one text on one Genre table
InitGenres ==
    /\ InitIdle
    /\ call \in {[fn |-> "_map_genres", genre_text |-> x, initial |-> t,
                  table |-> t, results |-> <<>>, tables |-> <<>>,
                  raised |-> "none"] : x \in GenreTexts, t \in GenreTables}

NextGenres == CallMapGenres

SpecGenres == InitGenres /\ [][NextGenres]_vars

\* worksheets of one column: up to two rows with "Artist" in their first
\* cell, every other first cell empty or holding other text
HeaderSheets(max_rows) ==
    {[r \in 1..max_rows |->
         <<ValueCell(IF r \in at THEN ArtistHeader ELSE other)>>] :
        at \in {rs \in SUBSET (1..max_rows) : Cardinality(rs) <= 2},
        other \in {<<>>, <<"T", "i", "t", "l", "e">>, <<"a", "r", "t", "i", "s", "t">>}}

InitHeader ==
    /\ InitIdle
    /\ call \in {[fn |-> "_find_header_row", worksheet |-> w,
                  done |-> FALSE, result |-> 0] :
                     w \in HeaderSheets(MaxSheetRows)}

NextHeader == CallFindHeader

SpecHeader == InitHeader /\ [][NextHeader]_vars

\* header rows: every expected column, or all but one of those after Artist
AllHeaders ==
    <<ArtistHeader, AlbumHeader, ReleaseDateHeader, LengthHeader,
      GenreHeader, VocalStyleHeader, CountryHeader, SpotifyHeader>>

HeaderLists ==
    {AllHeaders}
        \cup {SelectSeq(AllHeaders, LAMBDA h : h # missing) :
                 missing \in {AlbumHeader, ReleaseDateHeader, LengthHeader,
                              GenreHeader, VocalStyleHeader, CountryHeader,
                              SpotifyHeader}}

RowDigit(i) == <<"0", "1", "2", "3", "4", "5", "6", "7", "8", "9">>[i + 1]

RowKinds ==
    {"link", "formula", "bad_formula", "no_album", "no_url", "padded", "end"}

\* the cell of data row i under a header, for a row of the kind
DataCell(header, kind, i) ==
    IF header = ArtistHeader
      THEN (IF kind = "end" THEN EmptyCell
            ELSE IF kind = "padded" THEN ValueCell(<<" ">>)
            ELSE ValueCell(<<"A", RowDigit(i)>>))
    ELSE IF header = AlbumHeader
      THEN (IF kind = "no_album" THEN EmptyCell
            ELSE IF kind = "padded"
              THEN ValueCell(<<" ", "B", RowDigit(i), " ">>)
            ELSE ValueCell(<<"B", RowDigit(i)>>))
    ELSE IF header = SpotifyHeader
      THEN (IF kind = "no_url" THEN ValueCell(<<"n", "/", "a">>)
            ELSE IF kind = "formula"
              THEN ValueCell(HyperlinkOpen \o <<"u", RowDigit(i)>>
                                 \o <<"\"", ",", "\"", "L", "i", "s", "t", "e", "n", "\"", ")">>)
            ELSE IF kind = "bad_formula"
              THEN ValueCell(<<"=", "H", "Y", "P", "E", "R", "L", "I", "N", "K", "(", "A", "1", ")">>)
            ELSE LinkCell(<<"L", "i", "s", "t", "e", "n">>, <<"u", RowDigit(i)>>))
    ELSE IF header = CountryHeader THEN ValueCell(<<" ", "N", "o", "r", "w", "a", "y", " ">>)
    ELSE IF header = GenreHeader THEN ValueCell(<<"D", "j", "e", "n", "t">>)
    ELSE IF header = VocalStyleHeader THEN ValueCell(<<"C", "l", "e", "a", "n">>)
    ELSE IF header = ReleaseDateHeader THEN ValueCell(<<"M", "a", "y", " ", "1">>)
    ELSE ValueCell(<<"4", "5">>)

\* a tab: title rows, the header row, and data rows of the kinds given
TabSheet(titles, headers, kinds) ==
    [r \in 1..titles |-> <<ValueCell(<<"T", "i", "t", "l", "e">>)>>]
        \o <<[j \in DOMAIN headers |-> ValueCell(headers[j])]>>
        \o [i \in DOMAIN kinds |->
               [j \in DOMAIN headers |-> DataCell(headers[j], kinds[i], i)]]

TabSheets(max_rows) ==
    {TabSheet(titles, headers, kinds) :
        titles \in {0, 1},
        headers \in HeaderLists,
        kinds \in UNION {[1..n -> RowKinds] : n \in 0..max_rows}}

InitFetchTab ==
    /\ InitIdle
    /\ call \in {[fn |-> "fetch_albums_from_tab", worksheet |-> w,
                  tab_year |-> 2025, done |-> FALSE,
                  result |-> Fetched(<<>>)] :
                     w \in TabSheets(MaxDataRows)}

NextFetchTab == CallFetchTab

SpecFetchTab == InitFetchTab /\ [][NextFetchTab]_vars

\* "Vocal Style" cells
VocalStyleTexts ==
    {<<>>, <<"c", "l", "e", "a", "n">>, <<"C", "l", "e", "a", "n", " ", "g", "r", "o", "w", "l", "s">>, <<"m", "i", "x", "e", "d", " ", "c", "l", "e", "a", "n">>, <<"N", "o", " ", "v", "o", "c", "a", "l", "s">>,
     <<"i", "n", "s", "t", "r", "u", "m", "e", "n", "t", "a", "l", ",", " ", "m", "i", "x", "e", "d">>, <<"H", "A", "R", "S", "H", " ", "V", "O", "C", "A", "L", "S">>, <<"s", "c", "r", "e", "a", "m", "i", "n", "g">>, <<"O", "p", "e", "r", "a", "t", "i", "c">>,
     <<"o", "p", "e", "r", "a", "t", "i", "c">>, <<"O", "p", "e", "r", "a", "t", "i", "c", "!">>}

\* names of the vocal styles stored by earlier imports or in the admin
VocalStyleNames ==
    {MixedVocals, InstrumentalVocals, CleanVocals, HarshVocals,
     <<"O", "p", "e", "r", "a", "t", "i", "c">>, <<"C", "l", "e", "a", "n", " ", "G", "r", "o", "w", "l", "s">>}

VocalStyleTables(max_styles) ==
    {t \in SUBSET {NewGenre(n) : n \in VocalStyleNames} :
        Cardinality(t) <= max_styles}

\* _map_vocal_style called again and again with one text on one table
InitVocalStyle ==
    /\ InitIdle
    /\ call \in {[fn |-> "_map_vocal_style", vocal_style_text |-> x,
                  initial |-> t, table |-> t, results |-> <<>>,
                  tables |-> <<>>, raised |-> "none"] :
                     x \in VocalStyleTexts, t \in VocalStyleTables(MaxStyles)}

NextVocalStyle == CallMapVocalStyle

SpecVocalStyle == InitVocalStyle /\ [][NextVocalStyle]_vars

\* rows handed to _import_single_album
SheetsRows ==
    {[artist |-> "Opeth", album |-> "Still Life", country |-> c,
      genre |-> g, vocal_style |-> v, release_date |-> d, tab_year |-> 2025,
      spotify_url |-> "https://open.spotify.com/album/1"] :
        c \in {"", "Sweden"},
        g \in {BlackMetalMathcore, <<>>},
        v \in {<<>>, <<"C", "l", "e", "a", "n">>},
        d \in {[type |-> "NoneType"],
               [type |-> "datetime", year |-> 2024, month |-> 2, day |-> 29],
               [type |-> "str", text |-> <<MonthName(1), DayNumber(15)>>]}}

\* what get_album_metadata returns for the album, when it is asked
Metadata ==
    [artist_id |-> "sp-opeth", artist_name |-> "Opeth",
     name |-> "Still Life (Remastered)", release_date |-> <<1999, 10, 18>>,
     cover_art_url |-> "https://i.scdn.co/image/new",
     spotify_url |-> "https://open.spotify.com/album/1"]

\* Artist tables earlier imports have left: none, the artist created from a
\* row (no identifier) or from metadata, with or without a country, or both
ArtistTables ==
    {<<>>}
        \cup {<<NewArtist("Opeth", c, i)>> :
                 c \in {"", "Norway"}, i \in {"", "sp-opeth"}}
        \cup {<<NewArtist("Opeth", "", ""), NewArtist("Opeth", "", "sp-opeth")>>}

\* the album as an earlier import has left it, with the cover art of an
\* import with metadata or without, viewed since (cache filled) or not
StoredAlbums ==
    {AlbumRow(1,
              [name |-> "Still Life (old)", artist |-> 1,
               vocal_style |-> CleanVocals, release_date |-> <<2024, 1, 1>>,
               cover_art_url |-> art,
               spotify_url |-> "https://open.spotify.com/album/1?old"],
              cache) :
        art \in {"", "https://i.scdn.co/image/old"},
        cache \in {NoCache,
                   [spotify_cover_url |-> "https://i.scdn.co/image/cached",
                    spotify_cover_cached_at |-> 1,
                    spotify_metadata_json |-> "{tracks}",
                    spotify_metadata_cached_at |-> 1]}}

\* catalogs earlier imports have left: empty Album table, or the album of
\* the row stored with its artist, its genre and its vocal style
Catalogs ==
    {Tables(artists, genres, {}, {}, {}) :
        artists \in ArtistTables,
        genres \in {{}, {NewGenre(<<"B", "l", "a", "c", "k", "-", "M", "e", "t", "a", "l">>)},
                    {NewGenre(BlackMetal), NewGenre(Mathcore)}}}
        \cup {Tables(artists, {NewGenre(Mathcore)}, {NewGenre(CleanVocals)},
                     {row}, {<<1, Mathcore>>}) :
                 artists \in ArtistTables \ {<<>>}, row \in StoredAlbums}

NewImport(sheets_data, spotify_metadata, album_id, tables) ==
    [fn |-> "_import_single_album", sheets_data |-> sheets_data,
     spotify_metadata |-> spotify_metadata, album_id |-> album_id,
     before |-> tables, db |-> tables, txn |-> tables, pc |-> "artist",
     artist |-> 0, genres |-> <<>>, vocal_style |-> <<>>,
     release_date |-> NoDate, created |-> FALSE, raised |-> "none",
     wrote |-> FALSE, seen |-> <<>>, seen_inside |-> FALSE]

\* one row imported into one catalog while the catalog pages are read
InitImport ==
    /\ InitIdle
    /\ call \in {NewImport(row, metadata, 1, tables) :
                    row \in SheetsRows,
                    metadata \in {NoMetadata, <<Metadata>>},
                    tables \in Catalogs}

NextImport ==
    \/ ImportArtist
    \/ ImportCountry
    \/ ImportGenres
    \/ ImportVocalStyle
    \/ ImportReleaseDate
    \/ ImportAlbum
    \/ ImportLinks
    \/ ImportReturn
    \/ Browse

SpecImport == InitImport /\ [][NextImport]_vars

\* the classifier applied to one raised exception
ClassifiedFaults ==
    {FaultOf(bs) : bs \in {b \in SUBSET Classes :
                              Cardinality(b) >= 1 /\ Cardinality(b) <= MaxBases}}

InitClassify ==
    /\ InitDb
    /\ workbook = <<>>
    /\ cl_error \in ClassifiedFaults
    /\ cl_result = <<>>

Classify ==
    /\ cl_result = <<>>
    /\ cl_result' = classify_and_handle_error(cl_error)
    /\ UNCHANGED <<ops, albums, records, locked, creating, stopping, resp,
                   workbook, worker, hist, cl_error, cover, call>>

NextClassify == Classify

SpecClassify == InitClassify /\ [][NextClassify]_vars

(***************************************************************************)
(* Properties                                                              *)
(***************************************************************************)
IsActive(row) == row.status = "pending" \/ row.status = "running"
NoneActive == \A o \in OpIds : ~IsActive(ops[o])
Finished(o) == worker[o].pc = "done"
RecordsOf(o) == SelectSeq(records, LAMBDA r : r.op = o)

\* C1: as long as no cancel has been written, at most one SyncOperation is
\* pending or running at any time: of the trigger requests that run
\* concurrently when none is active, only one creates a row and starts a
\* worker.
C1_OneActiveRun ==
    (\A o \in OpIds : ~hist[o].stop_written)
        => Cardinality({o \in OpIds : IsActive(ops[o])}) <= 1

\* C2: a run on which a cancel request has saved "cancelled" ends with the
\* stored status cancelled, never completed or failed.
C2_CancelWins ==
    \A o \in OpIds :
        (hist[o].stop_written /\ Finished(o)) => ops[o].status = "cancelled"

\* C3: when the cancel is saved while the worker is in the album loop of tab
\* N, no tab after N is ever extracted, and when the worker has finished
\* every row of tab N has been attempted and the stored status is cancelled.
C3_CancelBoundary ==
    \A o \in OpIds :
        hist[o].stop_tab # 0 =>
            /\ hist[o].max_tab = hist[o].stop_tab
            /\ worker[o].tab_index <= hist[o].stop_tab + 1
            /\ Finished(o) =>
                  /\ hist[o].attempted = 1..Len(worker[o].sheet_data)
                  /\ ops[o].status = "cancelled"
                  /\ Len(worker[o].tab_results) = hist[o].stop_tab

\* a run cancelled in the album loop of its first tab has finished, and the
\* workbook has a second tab
C3_Witness ==
    \E o \in OpIds :
        /\ hist[o].stop_tab = 1
        /\ Finished(o)
        /\ Len(workbook) > 1
        /\ Len(worker[o].sheet_data) > 1

\* C4: a stored status of completed, failed or cancelled is never changed by
\* any step.
C4_TerminalImmutable ==
    [][\A o \in OpIds :
          ops[o].status \in Terminal => ops'[o].status = ops[o].status]_vars

\* C5: while some SyncOperation is pending or running, every response a
\* trigger request gets without creating a row is the conflict response 409.
C5_ConflictWhenActive ==
    [][((\E o \in OpIds : IsActive(ops[o]))
          /\ resp'.trigger # resp.trigger
          /\ Len(ops') = Len(ops))
        => resp'.trigger = 409]_vars

\* C6: while no SyncOperation is pending or running, no cancel request loads
\* a row to cancel, and the step that answers a cancel request with 404
\* leaves every SyncOperation row as it is.
C6_StopNotFound ==
    [][(NoneActive
          /\ (\A o \in DOMAIN stopping : stopping'[o] >= stopping[o])
          /\ (stopping' # stopping \/ resp'.stop # resp.stop))
        => (resp'.stop = 404 /\ stopping' = stopping /\ ops' = ops)]_vars

\* a cancel request was answered 404 after a run had ended
C6_Witness ==
    /\ resp.stop = 404
    /\ ops # <<>>
    /\ NoneActive
    /\ \E o \in OpIds : ops[o].status = "cancelled"

RECURSIVE SumCreated(_)
SumCreated(results) ==
    IF results = <<>> THEN 0
    ELSE (IF Head(results).success THEN Head(results).created ELSE 0)
            + SumCreated(Tail(results))

\* tab a succeeded, a later tab b failed and was skipped, a later tab c
\* succeeded
PartialRun(results) ==
    \E a, b, c \in DOMAIN results :
        /\ a < b /\ b < c
        /\ results[a].success /\ ~results[b].success /\ results[c].success

\* C7: a finished, uncancelled run in which a tab succeeded, a later tab
\* failed with a continuable fault and a still later tab succeeded is stored
\* as completed; its error_message is the warning naming the failed tabs; the
\* created count of its SyncRecord is the number of albums in the catalog,
\* all of them counted by successful tabs, and nothing was updated.
C7_PartialFailure ==
    \A o \in OpIds :
        (Finished(o) /\ PartialRun(worker[o].tab_results)) =>
            LET results == worker[o].tab_results
                failed == failed_tabs(results)
                rec == RecordsOf(o)
            IN
            /\ ops[o].status = "completed"
            /\ ops[o].error_message.kind = "warning"
            /\ Len(failed) <= ShowFailedTabs =>
                  \A i \in DOMAIN failed :
                      \E j \in DOMAIN ops[o].error_message.summary.names :
                          ops[o].error_message.summary.names[j][1] = failed[i].name
            /\ Len(rec) = 1
            /\ rec[1].albums_created = SumCreated(results)
            /\ rec[1].albums_created = Cardinality(albums)
            /\ rec[1].albums_updated = 0
            /\ \A i \in DOMAIN failed : failed[i].created = 0

\* the run of a three-tab workbook has finished: the first and the third tab
\* each created an album, the second failed
C7_Witness ==
    \E o \in OpIds :
        /\ Finished(o)
        /\ Len(worker[o].tab_results) = 3
        /\ worker[o].tab_results[1].success
        /\ worker[o].tab_results[1].created > 0
        /\ ~worker[o].tab_results[2].success
        /\ worker[o].tab_results[3].success
        /\ worker[o].tab_results[3].created > 0

\* C8: a run whose tab loop was left by the break on a not continuable fault
\* before any tab had succeeded is stored as failed.
C8_AbortFails ==
    \A o \in OpIds :
        (Finished(o) /\ hist[o].aborted
            /\ successful_tabs(worker[o].tab_results) = <<>>)
        => ops[o].status = "failed"

\* C9: every fault that is an instance of requests.exceptions.Timeout is
\* classified continuable.
C9_TimeoutContinuable ==
    (cl_result # <<>> /\ IsInstance(cl_error, "Timeout")) => cl_result[1]

AbortClasses == {"CriticalSyncError", "ConnectionError", "OSError", "MemoryError"}

\* C10: the classifier returns a verdict for every fault, and the verdict is
\* not continuable exactly when the fault is an instance of CriticalSyncError,
\* requests ConnectionError, OSError or MemoryError, whatever other classes
\* it is an instance of.
C10_Precedence ==
    /\ classify_and_handle_error(cl_error) \in BOOLEAN \X
          {"Critical sync error", "Connection error", "File I/O error",
           "Memory error", "Tab processing error", "Data format error in tab",
           "Request timeout for tab", "Unexpected error in tab"}
    /\ cl_result # <<>> =>
          (cl_result[1] <=> (cl_error \cap AbortClasses = {}))

\* a fault that is both an OSError and a ValueError has been classified
C10_Witness ==
    /\ cl_result # <<>>
    /\ IsInstance(cl_error, "OSError")
    /\ IsInstance(cl_error, "ValueError")

\* the rows tab t of a workbook with fixed contents serves
FixedRows(t) ==
    LET sheet == CHOOSE sh \in workbook[t].sheets : TRUE IN
    [j \in DOMAIN sheet.rows |-> CHOOSE r \in sheet.rows[j] : TRUE]

\* the album ids on the rows of tab t, and on the rows of the tabs before it
IdsOfTab(t) == {FixedRows(t)[j].id : j \in DOMAIN FixedRows(t)} \ {0}
IdsBefore(t) == UNION {IdsOfTab(u) : u \in 1..(t - 1)}

\* C11: in a finished run over two tabs whose rows all import, each tab
\* counts as created exactly the albums it is the first to list and as
\* skipped every other row, so of the rows sharing an identifier one is
\* created and the others are skipped; the catalog holds exactly the listed
\* identifiers and nothing is counted as updated.
C11_CrossTabDedup ==
    (Len(ops) = 1 /\ Finished(1) /\ ops[1].status = "completed") =>
        LET results == worker[1].tab_results IN
        /\ Len(results) = Len(workbook)
        /\ \A t \in DOMAIN results :
              /\ results[t].success
              /\ results[t].created = Cardinality(IdsOfTab(t) \ IdsBefore(t))
              /\ results[t].skipped = Len(FixedRows(t)) - results[t].created
        /\ albums = IdsBefore(Len(workbook) + 1)
        /\ worker[1].updated_count = 0
        /\ worker[1].created_count = Cardinality(albums)

\* a finished run in which both tabs list album 1 and the second tab lists
\* nothing else
C11_Witness ==
    /\ Len(ops) = 1 /\ Finished(1) /\ ops[1].status = "completed"
    /\ IdsOfTab(1) = {1}
    /\ IdsOfTab(2) = {1}
    /\ worker[1].tab_results[1].created = 1
    /\ worker[1].tab_results[2].skipped = Len(FixedRows(2))

RECURSIVE TotalRows(_)
TotalRows(t) == IF t = 0 THEN 0 ELSE Len(FixedRows(t)) + TotalRows(t - 1)

\* C12: a run completed after an earlier completed run over the same
\* workbook reports created = 0 and updated = 0 and every row as skipped,
\* imports nothing, and leaves the catalog holding exactly the identifiers
\* the earlier run left, each once.
C12_Idempotent ==
    \A p, o \in OpIds :
        (p < o /\ Finished(o)
            /\ ops[p].status = "completed" /\ ops[o].status = "completed") =>
            LET rec == RecordsOf(o)
                before == RecordsOf(p)
            IN
            /\ Len(rec) = 1 /\ Len(before) = 1
            /\ rec[1].albums_created = 0
            /\ rec[1].albums_updated = 0
            /\ rec[1].albums_skipped = TotalRows(Len(workbook))
            /\ worker[o].total_albums_processed = 0
            /\ rec[1].total_albums_in_catalog = before[1].total_albums_in_catalog
            /\ albums = IdsBefore(Len(workbook) + 1)

\* a second run has completed over a workbook listing albums 1 and 2
C12_Witness ==
    /\ Len(ops) = 2
    /\ Finished(2)
    /\ ops[1].status = "completed"
    /\ ops[2].status = "completed"
    /\ IdsOfTab(1) = {1}
    /\ IdsOfTab(2) = {2}

\* the user-facing message of the category of a fault of the workbook fetch
CategoryMessage(e, text) ==
    CASE "ConnectionError" \in e -> "Unable to reach external services"
      [] "ConnectionError" \notin e /\ "Timeout" \in e -> "Request timed out"
      [] "HTTPError" \in e -> "HTTP error occurred"
      [] "ValueError" \in e /\ text = "header row"
            -> "Unable to find the expected data structure"
      [] OTHER -> "Synchronization failed"

\* C13: a run whose workbook fetch raised has processed no tab and imported
\* nothing, is stored as failed with completed_at set and the message of the
\* fault's category, and has written exactly one SyncRecord, with
\* success = false, zero counts and the same message.
C13_FetchFails ==
    \A o \in OpIds :
        (Finished(o) /\ worker[o].exc # NoFault) =>
            LET rec == RecordsOf(o)
                msg == [kind |-> "failed",
                        text |-> CategoryMessage(worker[o].exc, worker[o].exc_text)]
            IN
            /\ worker[o].tab_results = <<>>
            /\ hist[o].max_tab = 0
            /\ albums = {}
            /\ ops[o].status = "failed"
            /\ ops[o].completed_at
            /\ ops[o].error_message = msg
            /\ Len(rec) = 1
            /\ ~rec[1].success
            /\ rec[1].error_message = msg
            /\ rec[1].albums_created = 0
            /\ rec[1].albums_updated = 0
            /\ rec[1].albums_skipped = 0

\* a run whose workbook fetch timed out has ended
C13_Witness ==
    \E o \in OpIds :
        /\ Finished(o)
        /\ "Timeout" \in worker[o].exc
        /\ ops[o].status = "failed"

\* C14: a run that wrote the cancellation SyncRecord at its final check has
\* written no other record; the record has success = false and the counts
\* accumulated by the tabs processed before the cancellation was seen;
\* completed_at is set and the stored status is still cancelled.
C14_CancelledRecord ==
    \A o \in OpIds :
        LET rec == RecordsOf(o) IN
        (\E i \in DOMAIN rec : rec[i].error_message.kind = "cancelled") =>
            /\ Finished(o)
            /\ Len(rec) = 1
            /\ ~rec[1].success
            /\ rec[1].error_message.tabs = Len(worker[o].tab_results)
            /\ rec[1].albums_created = SumCreated(worker[o].tab_results)
            /\ rec[1].albums_created = Cardinality(albums)
            /\ rec[1].albums_updated = 0
            /\ rec[1].albums_created + rec[1].albums_skipped
                  = TotalRows(Len(worker[o].tab_results))
            /\ ops[o].completed_at
            /\ ops[o].status = "cancelled"
            /\ ops[o].error_message = NoMessage

\* a run cancelled after it had created an album has written its record
C14_Witness ==
    \E o \in OpIds :
        /\ Finished(o)
        /\ ops[o].status = "cancelled"
        /\ Len(RecordsOf(o)) = 1
        /\ RecordsOf(o)[1].error_message.kind = "cancelled"
        /\ RecordsOf(o)[1].albums_created > 0

\* C15: the step in which the import of a row raises counts the row as
\* failed and as skipped and stores nothing; when rows remain the worker goes
\* on to the next row of the same tab, and after the last row the tab is
\* recorded as succeeded.  No tab is ever recorded as failed because of a row.
C15_RowFaultContinues ==
    /\ [](\A o \in OpIds : \A i \in DOMAIN worker[o].tab_results :
              worker[o].tab_results[i].success)
    /\ [][\A o \in OpIds :
            worker'[o].failed_count # worker[o].failed_count =>
                LET w == worker[o]
                    v == worker'[o]
                IN
                /\ v.failed_count = w.failed_count + 1
                /\ v.skipped_count = w.skipped_count + 1
                /\ v.created_count = w.created_count
                /\ albums' = albums
                /\ ops'[o].status = "running"
                /\ IF w.album_idx < Len(w.sheet_data)
                     THEN /\ v.pc = "rows"
                          /\ v.album_idx = w.album_idx + 1
                          /\ v.tab_index = w.tab_index
                          /\ v.tab_results = w.tab_results
                     ELSE /\ Len(v.tab_results) = Len(w.tab_results) + 1
                          /\ v.tab_results[Len(v.tab_results)].name
                                = workbook[w.tab_index].name
                          /\ v.tab_results[Len(v.tab_results)].success
                          /\ v.tab_results[Len(v.tab_results)].created
                                = w.tab_created
                          /\ v.tab_index = w.tab_index + 1]_vars

\* the import of the first row of a tab raised and the second row of the tab
\* is being imported
C15_Witness ==
    \E o \in OpIds :
        /\ worker[o].pc = "import"
        /\ worker[o].album_idx = 2
        /\ worker[o].failed_count = 1
        /\ worker[o].tab_results = <<>>

\* C16: however many album_cover_art requests run concurrently for an album
\* without cached cover art, at most one of them obtains the cover art from
\* upstream.
C16_OneUpstreamFetch ==
    Cardinality({r \in Viewers : cover.viewer[r].cover_url # 0}) <= 1

\* C17: sort_tabs_chronologically returns a permutation of its input in
\* which every dated tab precedes every undated tab, the dated tabs are in
\* non-decreasing year order, and undated tabs, as well as dated tabs of
\* equal year, keep their relative input order.
Dated(t) == t.year # NoYear
SortCalled == call.fn = "sort_tabs_chronologically" /\ call.done
Range(seq) == {seq[i] : i \in DOMAIN seq}

C17_SortedTabs ==
    SortCalled =>
        LET out == call.result IN
        /\ Len(out) = Len(call.tabs)
        /\ Range(out) = Range(call.tabs)
        /\ \A i, j \in DOMAIN out :
              i < j =>
                /\ Dated(out[j]) => Dated(out[i])
                /\ (Dated(out[i]) /\ Dated(out[j]))
                      => out[i].year[1] <= out[j].year[1]
                /\ out[i].year = out[j].year
                      => out[i].order < out[j].order

\* a list with an undated tab ahead of two dated tabs of the same year
C17_Witness ==
    /\ SortCalled
    /\ call.result # call.tabs
    /\ \E i, j, k \in DOMAIN call.tabs :
          /\ i < j /\ j < k
          /\ ~Dated(call.tabs[i])
          /\ Dated(call.tabs[j])
          /\ call.tabs[j].year = call.tabs[k].year

\* C18: is_prog_metal_tab(label) is true exactly when the label ends with
\* " Prog-metal" or " Prog-rock" or consists of exactly four digits, and false
\* for every other label; filter_tabs keeps exactly the in-scope tabs in
\* their input order.
ExactlyFourDigits(label) ==
    Len(label) = 4 /\ \A i \in 1..4 : label[i] \in Digits

InScope(label) ==
    \/ EndsWith(label, ProgMetalSuffix)
    \/ EndsWith(label, ProgRockSuffix)
    \/ ExactlyFourDigits(label)

C18_InScope ==
    /\ (call.fn = "is_prog_metal_tab" /\ call.done)
          => (call.result <=> InScope(call.tab_name))
    /\ (call.fn = "filter_tabs" /\ call.done)
          => call.result =
                SelectSeq(call.tabs, LAMBDA t : InScope(t.normalized_name))

\* C19: parse_release_date of a "Month Day" text with tab year Y returns the
\* date Y-month-day, of a "Month" text returns Y-month-01, and of an empty or
\* unparseable text returns none without raising.
DateCalled == call.fn = "parse_release_date" /\ call.done

\* a month name followed by a day of that month in that year
IsMonthDay(text, year) ==
    /\ Len(text) = 2
    /\ text[1].kind = "month"
    /\ text[2].kind = "day"
    /\ text[2].n >= 1
    /\ text[2].n <= DaysInMonth(text[1].n, year)

IsMonth(text) == Len(text) = 1 /\ text[1].kind = "month"

C19_DateCompletion ==
    DateCalled =>
        LET text == call.date_value
            Y == call.year
        IN  /\ call.result # ValueError
            /\ call.result =
                  IF IsMonthDay(text, Y) THEN <<Y, text[1].n, text[2].n>>
                  ELSE IF IsMonth(text) THEN <<Y, text[1].n, 1>>
                  ELSE NoDate

\* C20 as stated: mapGenres("Black Metal, Mathcore") returns exactly two
\* genres named "Black Metal" and "Mathcore" in that order, both persisted,
\* and calling it again with the same input creates no additional Genre row
\* and returns the same genres.
SplitCalled(n) ==
    /\ call.fn = "_map_genres"
    /\ call.genre_text = BlackMetalMathcore
    /\ Len(call.results) >= n

TwoGenres ==
    /\ call.raised = "none"
    /\ Len(call.results[1]) = 2
    /\ call.results[1][1].name = BlackMetal
    /\ call.results[1][2].name = Mathcore
    /\ \A i \in 1..2 : call.results[1][i] \in call.tables[1]

SameAgain ==
    /\ call.raised = "none"
    /\ call.tables[2] = call.tables[1]
    /\ call.results[2] = call.results[1]

NoNearGenre ==
    \A g \in call.initial : \A name \in {BlackMetal, Mathcore} :
        (Contains(Lower(name), Lower(g.name)) \/ g.slug = slugify(name))
            => g.name = name

StageRank(stage) ==
    CASE stage = "" -> 0
      [] stage = "fetching" -> 1
      [] stage = "processing" -> 2
      [] stage = "finalizing" -> 3

ImportingRows(o) == worker[o].pc \in {"rows", "import"}

C21_StageForward ==
    /\ [](\A o \in OpIds : ImportingRows(o) => ops[o].stage = "processing")
    /\ [][\A o \in OpIds :
            StageRank(ops[o].stage) <= StageRank(ops'[o].stage)]_vars

\* C22: at most one sync worker is executing a run (fetching, processing
\* tabs or finalizing) at any time, for every sequence of trigger and cancel
\* requests, including a trigger issued after a cancel request while the
\* cancelled run's worker is still inside a tab.
Executing(o) == worker[o].pc \notin {"start", "done"}

C22_OneWorker == Cardinality({o \in OpIds : Executing(o)}) <= 1

\* C23: in a run without cancellation the tabs are attempted in sorted
\* order, and tab k+1 is attempted if and only if no earlier tab raised a
\* fault classified not continuable: a continuable fault records its tab as
\* failed with zero counts and the next tab is attempted, and after a fault
\* that is not continuable no later tab is attempted.
LoopLeft(o) ==
    \/ worker[o].pc \in {"final", "complete"}
    \/ worker[o].pc = "done" /\ worker[o].exc = NoFault

C23_TabContinuation ==
    \A o \in OpIds :
        LET tr == worker[o].tab_results IN
        /\ \A i \in DOMAIN tr :
              /\ tr[i].name = workbook[i].name
              /\ ~tr[i].success => tr[i].created = 0 /\ tr[i].skipped = 0
        /\ hist[o].aborted =>
              /\ LoopLeft(o)
              /\ Len(tr) = hist[o].max_tab
              /\ ~tr[Len(tr)].success
        /\ (LoopLeft(o) /\ ~hist[o].aborted) => Len(tr) = Len(workbook)

\* a finished run over three tabs: the first failed and the second was
\* attempted, the second failed and the third was not
C23_Witness ==
    \E o \in OpIds :
        /\ Finished(o)
        /\ Len(workbook) = 3
        /\ Len(worker[o].tab_results) = 2
        /\ ~worker[o].tab_results[1].success
        /\ ~worker[o].tab_results[2].success
        /\ hist[o].aborted

\* C24: when a tab has finished, the stored albums_processed equals the
\* number of rows imported so far in the run, whatever the outcome
\* (imported, skipped, failed) of the tab's last row.
BetweenTabs(o) == worker[o].pc \in {"loop", "final", "complete", "done"}

C24_ProgressPersisted ==
    \A o \in OpIds :
        BetweenTabs(o) =>
            ops[o].albums_processed = worker[o].total_albums_processed

C26_OneRecord ==
    \A o \in OpIds :
        /\ Len(RecordsOf(o)) <= 1
        /\ Finished(o) => Len(RecordsOf(o)) = 1
        /\ Len(RecordsOf(o)) = 1 =>
              LET kind == RecordsOf(o)[1].error_message.kind IN
              /\ Finished(o)
              /\ kind = "cancelled" => ops[o].status = "cancelled"
              /\ kind = "failed" => worker[o].exc # NoFault

\* a run cancelled after it had created albums has written its one record
C26_Witness ==
    \E o \in OpIds :
        /\ Finished(o)
        /\ Len(RecordsOf(o)) = 1
        /\ RecordsOf(o)[1].error_message.kind = "cancelled"
        /\ RecordsOf(o)[1].albums_created > 0

\* C30 as stated: for a structured date value and a tab year,
\* parse_release_date returns the same month and day with the year replaced
\* by the tab year when they differ, and for every input (structured date of
\* any month and day, text, empty) and every tab year it returns a date or
\* none and never raises.
ValueParsed == call.fn = "parse_release_date" /\ call.done

C30_YearOverride ==
    ValueParsed =>
        /\ call.result # ValueError
        /\ call.date_value.type \in {"datetime", "date"} =>
              call.result = <<call.year, call.date_value.month,
                              call.date_value.day>>

\* C27 as stated: importing one row either commits all of its catalog effects
\* (artist, genres, vocal style, album and genre links) or, when the import
\* raises, none of them; a concurrent catalog reader never observes an Album
\* without its artist or a partially applied row.
RowApplied(tables) ==
    \E a \in tables.albums :
        /\ a.spotify_album_id = call.album_id
        /\ a.artist = call.artist
        /\ a.artist \in DOMAIN tables.artists
        /\ \E v \in tables.vocal_styles : v.name = a.vocal_style
        /\ {l \in tables.links : l[1] = call.album_id} =
               {<<call.album_id, call.genres[k].name>> :
                    k \in DOMAIN call.genres}
        /\ \A k \in DOMAIN call.genres : call.genres[k] \in tables.genres

C27_RowAtomicity ==
    ImportCalled =>
        /\ call.pc # "returned" => call.db = call.before
        /\ call.pc = "returned" => call.db = call.txn /\ RowApplied(call.db)
        /\ \/ call.seen \in {<<>>, <<call.before>>}
           \/ call.pc = "returned" /\ call.seen = <<call.db>>
        /\ \A a \in call.db.albums : a.artist \in DOMAIN call.db.artists

\* an import that raised after it had written, read while it was inside
C27_Witness ==
    /\ ImportCalled
    /\ call.pc = "raised"
    /\ call.wrote
    /\ call.seen_inside

\* C28 as stated: updating an existing Album through the merge in
\* just-in-time mode (no metadata lookup) overwrites only title, artist,
\* vocal style, release date, source URL and the genre set, and leaves the
\* album's cover-art URL, cached cover URL, cached metadata and their
\* timestamps unchanged.
StoredRow(tables) ==
    CHOOSE a \in tables.albums : a.spotify_album_id = call.album_id

JitUpdated == ImportCalled /\ call.pc = "returned" /\ Jit /\ ~call.created

C28_JitFrame ==
    JitUpdated =>
        /\ StoredRow(call.db).cover_art_url =
               StoredRow(call.before).cover_art_url
        /\ CacheOf(StoredRow(call.db)) = CacheOf(StoredRow(call.before))

\* C29 as stated: when a row supplies a country for an Artist that already
\* exists with a blank country, importing the row sets the artist's country
\* (in the default sync path as well as the eager path); a non-blank country
\* is never overwritten, and sync never deletes an Artist.
C29_CountryBackfill ==
    ImportCalled =>
        /\ \A i \in DOMAIN call.before.artists :
              /\ call.pc = "returned"
              /\ i = call.artist
              /\ call.before.artists[i].country = ""
              /\ call.sheets_data.country # ""
              => call.db.artists[i].country = call.sheets_data.country
        /\ \A i \in DOMAIN call.before.artists :
              /\ i \in DOMAIN call.txn.artists
              /\ i \in DOMAIN call.db.artists
              /\ call.before.artists[i].country # "" =>
                    /\ call.txn.artists[i].country =
                           call.before.artists[i].country
                    /\ call.db.artists[i].country =
                           call.before.artists[i].country

\* C31 as stated: header discovery scans rows 1 through 20 of a tab: a
\* header row whose first cell equals "Artist" at any of rows 1..20 is found
\* and its index returned (the first such row), and only when none of the
\* first 20 rows matches does it fail with the header-not-found error.
ArtistRows(worksheet, last) ==
    {r \in 1..last : worksheet_cell(worksheet, r, 1).value = ArtistHeader}

C31_HeaderWindow ==
    call.fn = "_find_header_row" /\ call.done =>
        LET rows == ArtistRows(call.worksheet, 20) IN
        IF rows = {} THEN call.result = 0
        ELSE call.result = CHOOSE r \in rows : \A q \in rows : r <= q

\* C32 as stated: row extraction from a tab returns, in sheet order, exactly
\* the rows between the header and the first row with an empty artist cell
\* that have a non-empty album title and an extractable URL: a row missing
\* album or URL is skipped without stopping the scan, and no row at or after
\* the first empty-artist row is returned.
TabFetched == call.fn = "fetch_albums_from_tab" /\ call.done

HeaderRowOf(worksheet) ==
    CHOOSE r \in DOMAIN worksheet : worksheet[r][1].value = ArtistHeader

HeaderOf(worksheet) ==
    {worksheet[HeaderRowOf(worksheet)][j].value :
        j \in DOMAIN worksheet[HeaderRowOf(worksheet)]}

ColumnUnder(worksheet, header) ==
    CHOOSE j \in DOMAIN worksheet[HeaderRowOf(worksheet)] :
        worksheet[HeaderRowOf(worksheet)][j].value = header

\* the data rows above the first row whose artist cell is empty
DataRows(worksheet) ==
    {r \in DOMAIN worksheet :
        /\ r > HeaderRowOf(worksheet)
        /\ \A q \in (HeaderRowOf(worksheet) + 1)..r :
              worksheet[q][ColumnUnder(worksheet, ArtistHeader)].value # <<>>}

HasUrl(c) ==
    \/ c.hyperlink # <<>> /\ c.hyperlink[1] # <<>>
    \/ c.hyperlink = <<>> /\ \E i \in DOMAIN c.value : MatchesAt(c.value, i)

ValidRows(worksheet) ==
    {r \in DataRows(worksheet) :
        /\ worksheet[r][ColumnUnder(worksheet, AlbumHeader)].value # <<>>
        /\ HasUrl(worksheet[r][ColumnUnder(worksheet, SpotifyHeader)])}

RECURSIVE Ascending(_)
Ascending(rows) ==
    IF rows = {} THEN <<>>
    ELSE LET least == CHOOSE r \in rows : \A q \in rows : r <= q
         IN  <<least>> \o Ascending(rows \ {least})

UsedHeaders ==
    {ArtistHeader, AlbumHeader, ReleaseDateHeader, GenreHeader,
     VocalStyleHeader, CountryHeader, SpotifyHeader}

C32_RowsExtracted ==
    TabFetched /\ UsedHeaders \subseteq HeaderOf(call.worksheet) =>
        LET w == call.worksheet
            valid == Ascending(ValidRows(w))
        IN  /\ call.result.raised = "none"
            /\ Len(call.result.albums) = Len(valid)
            /\ \A k \in DOMAIN valid :
                  /\ call.result.albums[k].album =
                         Strip(w[valid[k]][ColumnUnder(w, AlbumHeader)].value)
                  /\ call.result.albums[k].artist =
                         Strip(w[valid[k]][ColumnUnder(w, ArtistHeader)].value)

\* a tab where a row without an album and a row without a URL are followed
\* by a returned row, and a valid row lies below the first empty artist cell
C32_Witness ==
    /\ TabFetched
    /\ UsedHeaders \subseteq HeaderOf(call.worksheet)
    /\ LET w == call.worksheet
           skipped == DataRows(w) \ ValidRows(w)
       IN  /\ \E r \in ValidRows(w) : \E q \in skipped : q < r
           /\ \E r \in DOMAIN w : r > HeaderRowOf(w) /\ r \notin DataRows(w)
           /\ Len(call.result.albums) = 1

\* C33 as stated: a tab whose header lacks an expected but non-mandatory
\* column (Release Date, Genre / Subgenres, Vocal Style or Country / State)
\* is still extracted: its valid rows are returned with a blank value for the
\* missing field and the tab is not recorded as failed; extraction fails only
\* when Artist, Album or Spotify is absent.
C33_OptionalColumns ==
    TabFetched
      /\ {ArtistHeader, AlbumHeader, SpotifyHeader}
             \subseteq HeaderOf(call.worksheet) =>
        /\ call.result.raised = "none"
        /\ Len(call.result.albums) = Cardinality(ValidRows(call.worksheet))

\* C34 as stated: for each comma-separated non-empty token, in token order,
\* the result is the genre whose name equals the token case-insensitively if
\* one exists; otherwise an existing genre whose name is a case-insensitive
\* substring of the token; otherwise a newly created genre named after the
\* token; empty input yields the single default genre; the returned list has
\* one entry per token.  Stated for the calls that return.
GenreTokens(genre_text) ==
    LET pieces == SplitComma(genre_text) IN
    SelectSeq([k \in DOMAIN pieces |-> Strip(pieces[k])],
              LAMBDA token : token # <<>>)

RECURSIVE FollowsPrecedence(_, _, _)
FollowsPrecedence(table, tokens, genres) ==
    IF tokens = <<>> THEN genres = <<>>
    ELSE /\ genres # <<>>
         /\ LET token == Head(tokens)
                genre == Head(genres)
                exact == {g \in table : Lower(g.name) = Lower(token)}
                partial == {g \in table :
                               Contains(Lower(token), Lower(g.name))}
            IN  /\ IF exact # {} THEN genre \in exact
                   ELSE IF partial # {} THEN genre \in partial
                   ELSE genre.name = token /\ genre \notin table
                /\ FollowsPrecedence(table \cup {genre}, Tail(tokens),
                                     Tail(genres))

FirstMapReturned ==
    /\ call.fn = "_map_genres"
    /\ Len(call.results) >= 1
    /\ Len(call.results) = 1 => call.raised = "none"

FirstStyleReturned ==
    /\ call.fn = "_map_vocal_style"
    /\ Len(call.results) >= 1
    /\ Len(call.results) = 1 => call.raised = "none"

KeywordStyle(text) ==
    LET has(word) == Contains(Lower(Strip(text)), word) IN
    IF has(<<"i", "n", "s", "t", "r", "u", "m", "e", "n", "t", "a", "l">>) \/ has(<<"n", "o", " ", "v", "o", "c", "a", "l">>) THEN InstrumentalVocals
    ELSE IF has(<<"m", "i", "x", "e", "d">>) THEN MixedVocals
    ELSE IF has(<<"c", "l", "e", "a", "n">>) THEN CleanVocals
    ELSE IF has(<<"h", "a", "r", "s", "h">>) \/ has(<<"s", "c", "r", "e", "a", "m">>) \/ has(<<"g", "r", "o", "w", "l">>) THEN HarshVocals
    ELSE text

C35_VocalPrecedence ==
    FirstStyleReturned =>
        LET text == call.vocal_style_text
            style == call.results[1][1]
            exact == {v \in call.initial : Lower(v.name) = Lower(text)}
        IN  /\ Len(call.results[1]) = 1
            /\ style \in call.tables[1]
            /\ call.tables[1] \ call.initial \subseteq {style}
            /\ IF text = <<>> THEN style.name = MixedVocals
               ELSE IF exact # {} THEN style \in exact
               ELSE style.name = KeywordStyle(text)
            /\ Len(call.results) = 2 =>
                  /\ call.raised = "none"
                  /\ call.results[2] = call.results[1]
                  /\ call.tables[2] = call.tables[1]

\* a text with two keywords resolved twice: the first call has created the
\* style of the group that comes first
C35_Witness ==
    /\ FirstStyleReturned
    /\ Len(call.results) = 2
    /\ call.vocal_style_text = <<"m", "i", "x", "e", "d", " ", "c", "l", "e", "a", "n">>
    /\ call.results[1][1].name = MixedVocals
    /\ call.results[1][1] \notin call.initial

\* C36 as stated: in every terminal state of a run (completed, failed, or
\* cancelled with completed_at set) the stored current_tab is empty; it is
\* non-empty only while the worker is between starting a tab and leaving the
\* tab loop.
InTabLoop(o) ==
    /\ worker[o].pc \in {"loop", "rows", "import"}
    /\ hist[o].max_tab >= 1

C36_CurrentTabCleared ==
    \A o \in OpIds :
        /\ ops[o].status \in Terminal /\ ops[o].completed_at
               => ops[o].current_tab = 0
        /\ ops[o].current_tab # 0 => InTabLoop(o)

\* a run that was cancelled inside its second tab has ended
C36_Witness ==
    \E o \in OpIds :
        /\ ops[o].status = "cancelled"
        /\ ops[o].completed_at
        /\ hist[o].max_tab = 2
        /\ worker[o].pc = "done"

\* C39 as stated: for a run that ends completed, the SyncRecord success flag
\* is true if and only if no row import failed and no tab failed, and
\* whenever it is false the SyncRecord and the SyncOperation carry a
\* non-empty warning/error message, including the case where every attempted
\* row failed and no tab failed.
EndedCompleted(o) ==
    /\ worker[o].pc = "done"
    /\ worker[o].exc = NoFault
    /\ ops[o].status = "completed"
    /\ Len(RecordsOf(o)) = 1

C39_SuccessFlag ==
    \A o \in OpIds :
        EndedCompleted(o) =>
            LET record == RecordsOf(o)[1]
                w == worker[o]
            IN  /\ record.success <=>
                      (w.failed_count = 0
                          /\ Len(failed_tabs(w.tab_results)) = 0)
                /\ ~record.success =>
                      /\ record.error_message # NoMessage
                      /\ ops[o].error_message # NoMessage

\* C38 as stated: after a run has ended cancelled and no run is active, a
\* status poll reports that run as cancelled (the cancelled message with the
\* syncCancelled/stopPolling trigger), not an older completed or failed run
\* and not the idle message.
EndedCancelled(o) ==
    /\ worker[o].pc = "done"
    /\ ops[o].status = "cancelled"
    /\ ops[o].completed_at

C38_CancelledReported ==
    \A o \in OpIds :
        EndedCancelled(o) /\ NoneActive /\ o = Latest(OpIds) =>
            /\ sync_status(ops).fragment = "cancelled"
            /\ sync_status(ops).trigger = "syncCancelled, stopPolling"
            /\ sync_status(ops).sync = o

\* C37 as stated: genre and vocal-style get-or-create never fails a row: for
\* any token and any catalog state, including one where a different existing
\* name has the same derived slug as the token or where the same name is
\* created concurrently, resolution returns an entity instead of raising a
\* uniqueness error.
C37_NoUniquenessError ==
    call.fn = "_map_genres" =>
        /\ call.raised # "IntegrityError"
        /\ \A k \in DOMAIN call.results : call.results[k] # <<>>

\* a second cache_cover_url call with another URL returned
SecondStore ==
    \E r \in Viewers :
        /\ cover.viewer[r].response = "fetched"
        /\ cover.viewer[r].cover_url # cover.spotify_cover_url

\* C40: under any interleaving of concurrent callers a cached cover URL,
\* and cached metadata, once stored is never replaced, and in every state a
\* cached URL or cached metadata is present only together with its
\* timestamp.
C40_WriteOnceCache ==
    [][/\ cover.spotify_cover_url # 0 =>
            /\ cover'.spotify_cover_url = cover.spotify_cover_url
            /\ cover'.spotify_cover_cached_at = cover.spotify_cover_cached_at
       /\ cover.spotify_metadata_json # 0 =>
            /\ cover'.spotify_metadata_json = cover.spotify_metadata_json
            /\ cover'.spotify_metadata_cached_at = cover.spotify_metadata_cached_at
       /\ cover'.spotify_cover_url # 0 => cover'.spotify_cover_cached_at # 0
       /\ cover'.spotify_metadata_json # 0 =>
            cover'.spotify_metadata_cached_at # 0]_vars

\* the URL and the metadata are cached, and a later caller of
\* cache_cover_url came with a different URL and left the stored one
C40_Witness ==
    /\ cover.spotify_cover_url # 0
    /\ cover.spotify_metadata_json # 0
    /\ SecondStore
    /\ cover.lock = 0

====
